---- MODULE Spec2Model ----
(***************************************************************************)
(* Format-A: IEEE document generators and their HTTP / conversion glue.    *)
(*                                                                         *)
(* The seven generator implementations of the repository are modelled side *)
(* by side (variable impl):                                                *)
(*   "fixed"     server/ieee_generator_fixed.py   (python-docx)            *)
(*   "genpdf"    api/generate-pdf.py              (python-docx)            *)
(*   "docgen"    server/document_generator.py     (python-docx)            *)
(*   "ieeedoc"   server/ieee_document_generator.py (python-docx)           *)
(*   "ieeepdf"   server/ieee_pdf_generator.py     (ReportLab)              *)
(*   "identical" server/pdf_generator_identical.py (ReportLab)             *)
(*   "fallback"  server/pdf-generator-fallback.py (ReportLab)              *)
(* The generated document is the sequence doc of content-bearing output    *)
(* units (paragraphs, pictures, captions, headings); pure layout           *)
(* attributes (fonts, spacing, Spacer flowables) are not represented.      *)
(***************************************************************************)
EXTENDS Integers, Sequences, FiniteSets, TLC

VARIABLES
    scope,           \* which family of requests this run draws its inputs from
    impl,            \* the generator implementation that renders the request
    pc,              \* position of the generator in its emission sequence
    form_data,       \* the part of the request the generator has read so far
    doc,             \* the document built so far: sequence of output units
    figure_counter,  \* create_ieee_pdf's function-level figure counter
    h_impl,          \* HTTP handler that serves the request
    h_pc,            \* position of the handler in do_POST
    req,             \* the POST request
    status_lines,    \* HTTP status lines written by send_response, in order
    body,            \* kind of body written to wfile
    rendering,       \* TRUE once the handler has started its document generator
    has_utils,       \* did "from python_utils import ..." succeed
    pdf_bytes,       \* the PDF convert_docx_to_pdf of the endpoint returned
    c_impl,          \* conversion routine in use
    c_pc,            \* position of the conversion call
    outcome,         \* what the external converter does in this call
    files,           \* temporary files currently on disk
    calls,           \* conversion calls started so far
    cv_pc,           \* position of each concurrent run of convert-docx-pdf.py
    input_file,      \* /tmp/docx_convert/input.docx
    output_file,     \* /tmp/docx_convert/input.pdf
    loaded,          \* the DOCX LibreOffice has opened, per run
    pdf_data,        \* the PDF each run has written to stdout
    exit_code,       \* exit status of each run
    fn,              \* the pure routine under study
    arg,             \* its argument
    result,          \* <<what it returned>>, <<>> before the call
    proxy,           \* _proxy_to_python_backend: its loop position and counters
    chain            \* the stages preview-images.py has tried and what it wrote

render_vars == <<impl, pc, form_data, doc, figure_counter>>
http_vars   == <<h_impl, h_pc, req, status_lines, body, rendering, has_utils, pdf_bytes>>
conv_vars   == <<c_impl, c_pc, outcome, files, calls>>
race_vars   == <<cv_pc, input_file, output_file, loaded, pdf_data, exit_code>>
fn_vars     == <<fn, arg, result>>
pv_vars     == <<proxy, chain>>
vars == <<scope, impl, pc, form_data, doc, figure_counter,
          h_impl, h_pc, req, status_lines, body, rendering, has_utils, pdf_bytes,
          c_impl, c_pc, outcome, files, calls,
          cv_pc, input_file, output_file, loaded, pdf_data, exit_code,
          fn, arg, result, proxy, chain>>

----------------------------------------------------------------------------
(* Bounds of the model *)

MaxSections == 2      \* sections per request
MaxBlocks == 2        \* content blocks per section
MaxChain == 7         \* length of a parentId chain of subsections
MaxImgSections == 1   \* sections per request of the "img" family
MaxWalkSections == 1  \* sections per request of the "walk" family
MaxImgBlocks == 2     \* content blocks per section of the "img" family
MaxCalls == 3         \* conversion calls in a row
MaxConversions == 2   \* concurrent runs of convert-docx-pdf.py

----------------------------------------------------------------------------
(* Generic helpers *)

SeqUpTo(S, n) == UNION {[1..k -> S] : k \in 0..n}

RECURSIVE Flatten(_)
Flatten(ss) == IF ss = <<>> THEN <<>> ELSE Head(ss) \o Flatten(Tail(ss))

Count(s, P(_)) == Cardinality({j \in 1..Len(s) : P(s[j])})

\* One output unit.  kind says what was emitted; sec/num carry the numbers
\* that the code formats into the text ("<sec>. TITLE", "Fig. <sec>.<num>: ",
\* "[<num>] "); text is the variable part; blk is the index of the content
\* block that produced it (0: none); level is the nesting level of a
\* subsection unit (0: not a subsection unit).
U(kind, sec, blk, num, text, level) ==
    [kind |-> kind, sec |-> sec, blk |-> blk, num |-> num, text |-> text,
     level |-> level, path |-> <<>>]

\* A subsection heading: path is the numbering path <<section, n, m, ...>>,
\* level the nesting level at which it is rendered.
USub(kind, sec, path, text, level) ==
    [kind |-> kind, sec |-> sec, blk |-> 0, num |-> 0, text |-> text,
     level |-> level, path |-> path]

\* Result of a rendering routine: the units it appended and whether an
\* exception left it.
R(units, raised) == [units |-> units, raised |-> raised]

Then(r1, r2) ==
    IF r1.raised THEN r1 ELSE R(r1.units \o r2.units, r2.raised)

RECURSIVE ThenAll(_)
ThenAll(rs) == IF rs = <<>> THEN R(<<>>, FALSE) ELSE Then(Head(rs), ThenAll(Tail(rs)))

Kinds(units) == [j \in 1..Len(units) |-> units[j].kind]

\* str.upper() on the titles the model uses
Upper(s) ==
    CASE s = "Intro" -> "INTRO"
      [] s = "Method" -> "METHOD"
      [] OTHER -> s

----------------------------------------------------------------------------
(* Image data.  The data field of a block is one of                         *)
(*   ""         absent / empty (falsy)                                      *)
(*   "good"     base64 of a loadable image                                  *)
(*   "prefixed" "data:image/png;base64," followed by base64 of an image     *)
(*   "badb64"   text that base64.b64decode rejects, e.g. "not-base64!!"     *)
(*   "badimg"   valid base64 whose bytes are not an image                   *)

\* image_data.split(',')[1] when ',' in image_data
StripPrefix(data) == IF data = "prefixed" THEN "good" ELSE data

\* base64.b64decode(data) returns (TRUE) or raises binascii.Error (FALSE).
\* Without validate=True the characters outside the alphabet are discarded,
\* so "not-base64!!" leaves 9 characters and fails on padding; a data: URL
\* that was not stripped decodes to bytes that are not an image.
B64DecodeOk(data) == data # "badb64"

\* run.add_picture(stream) / reportlab Image(stream) recognises the bytes
ImageOk(data) == data = "good"

----------------------------------------------------------------------------
(* Text conversions on the texts the model uses *)

\* sanitize_text on the printable ASCII texts of the model: a falsy value
\* becomes "", everything else is kept (NFKD and the control-character
\* filter change nothing on such text)
sanitize_text(text) == IF text = "" THEN "" ELSE text

\* ieee_pdf_generator.process_html_formatting (and the replace() chain of
\* pdf-generator-fallback): text without '<' is returned as is; <p> is
\* dropped and </p> becomes <br/>
process_html_formatting(html_content) ==
    CASE html_content = "<p>Hello</p>" -> "Hello<br/>"
      [] OTHER -> html_content

\* generate-pdf.add_formatted_paragraph: HTMLToWordParser keeps the character
\* data of the markup as runs, the tags themselves are not text
add_formatted_paragraph(html_content) ==
    CASE html_content = "<p>Hello</p>" -> "Hello"
      [] OTHER -> sanitize_text(html_content)

\* str(ref) of a reference dict, as sanitize_text(ref) computes it
str_of_ref(ref) == "{'text': '" \o ref.text \o "'}"

\* The text of a body paragraph as each implementation writes it
body_text(im, text) ==
    CASE im \in {"ieeepdf", "fallback"} -> process_html_formatting(text)
      [] im = "genpdf" -> add_formatted_paragraph(text)
      [] OTHER -> text

----------------------------------------------------------------------------
(* Content blocks of a section: the figure logic of each implementation *)

\* img_count of the image branch: sum(1 for b in content_blocks[:block_idx+1]
\*                                     if b.get('type') == 'image')
img_count_image(content_blocks, i) ==
    Cardinality({j \in 1..i : content_blocks[j].type = "image"})

\* img_count of the text-with-image branch: also counts text blocks with data
img_count_text(content_blocks, i) ==
    Cardinality({j \in 1..i : \/ content_blocks[j].type = "image"
                              \/ /\ content_blocks[j].type = "text"
                                 /\ content_blocks[j].data # ""})

\* Variant of docx_figure that writes the caption before loading the picture
docx_figure_caption_first(block, idx, i, n, strip) ==
    LET data == IF strip THEN StripPrefix(block.data) ELSE block.data IN
    IF ~B64DecodeOk(data) THEN R(<<>>, TRUE)
    ELSE IF ~ImageOk(data)
    THEN R(<<U("caption", idx, i, n, block.caption, 0), U("empty", idx, i, 0, "", 0)>>, TRUE)
    ELSE R(<<U("caption", idx, i, n, block.caption, 0),
             U("picture", idx, i, 0, "", 0)>>, FALSE)

\* The try-body that inserts one figure with python-docx: decode, paragraph,
\* picture, caption.  strip says whether the data: prefix is removed first.
docx_figure(block, idx, i, n, strip) ==
    LET data == IF strip THEN StripPrefix(block.data) ELSE block.data IN
    IF ~B64DecodeOk(data) THEN R(<<>>, TRUE)
    ELSE IF ~ImageOk(data) THEN R(<<U("empty", idx, i, 0, "", 0)>>, TRUE)
    ELSE R(<<U("picture", idx, i, 0, "", 0),
             U("caption", idx, i, n, block.caption, 0)>>, FALSE)

\* try: ... except Exception: print(...)  around a routine
Caught(r) == R(r.units, FALSE)

\* ieee_generator_fixed.add_section / generate-pdf.add_section, one block
fixed_block(im, content_blocks, idx, i) ==
    LET block == content_blocks[i] IN
    IF block.type = "text" /\ block.content # "" THEN
        Then(R(<<U("para", idx, i, 0, body_text(im, block.content), 0)>>, FALSE),
             IF block.data # "" /\ block.caption # ""
             THEN Caught(docx_figure(block, idx, i, img_count_text(content_blocks, i), TRUE))
             ELSE R(<<>>, FALSE))
    ELSE IF block.type = "image" /\ block.data # "" /\ block.caption # "" THEN
        Caught(docx_figure(block, idx, i, img_count_image(content_blocks, i), TRUE))
    ELSE R(<<>>, FALSE)

\* document_generator.add_section, one block: the image branch has no try
docgen_block(content_blocks, idx, i) ==
    LET block == content_blocks[i] IN
    IF block.type = "text" /\ block.content # "" THEN
        Then(R(<<U("para", idx, i, 0, block.content, 0)>>, FALSE),
             IF block.data # "" /\ block.caption # ""
             THEN Caught(docx_figure(block, idx, i, img_count_text(content_blocks, i), FALSE))
             ELSE R(<<>>, FALSE))
    ELSE IF block.type = "image" /\ block.data # "" /\ block.caption # "" THEN
        docx_figure(block, idx, i, img_count_image(content_blocks, i), FALSE)
    ELSE R(<<>>, FALSE)

\* ieee_document_generator.add_section, one block: text only.  The type is
\* read as block['type']: KeyError when the block has none (type "")
ieeedoc_block(content_blocks, idx, i) ==
    LET block == content_blocks[i] IN
    IF block.type = "" THEN R(<<>>, TRUE)
    ELSE IF block.type = "text" /\ block.content # ""
    THEN R(<<U("para", idx, i, 0, block.content, 0)>>, FALSE)
    ELSE R(<<>>, FALSE)

\* The try-body that inserts one figure with ReportLab: decode, Image,
\* append image, append caption
rl_figure(block, idx, i, n, strip) ==
    LET data == IF strip THEN StripPrefix(block.data) ELSE block.data IN
    IF ~B64DecodeOk(data) \/ ~ImageOk(data) THEN R(<<>>, TRUE)
    ELSE R(<<U("picture", idx, i, 0, "", 0),
             U("caption", idx, i, n, block.caption, 0)>>, FALSE)

\* Does block i of create_ieee_pdf increment figure_counter?
ieeepdf_counts(block) ==
    \/ block.type = "text" /\ block.content # "" /\ block.data # "" /\ block.caption # ""
    \/ block.type = "image" /\ block.data # "" /\ block.caption # ""

\* ieee_pdf_generator.create_ieee_pdf, one block; fc is figure_counter after
\* the block's own increment
ieeepdf_block(content_blocks, idx, i, fc) ==
    LET block == content_blocks[i] IN
    IF block.type = "text" /\ block.content # "" THEN
        Then(R(<<U("para", idx, i, 0, process_html_formatting(block.content), 0)>>, FALSE),
             IF block.data # "" /\ block.caption # ""
             THEN Caught(rl_figure(block, idx, i, fc, TRUE))
             ELSE R(<<>>, FALSE))
    ELSE IF block.type = "image" /\ block.data # "" /\ block.caption # "" THEN
        Caught(rl_figure(block, idx, i, fc, TRUE))
    ELSE R(<<>>, FALSE)

\* pdf_generator_identical.process_image_block
process_image_block(block, section_idx, i, img_count) ==
    LET r == rl_figure(block, section_idx, i, img_count, TRUE) IN
    IF r.raised
    THEN R(r.units \o <<U("placeholder", section_idx, i, 0, "[Image could not be loaded]", 0)>>, FALSE)
    ELSE r

\* pdf_generator_identical.add_sections, one block; img_count counts the
\* image blocks with data and caption up to and including this one
identical_block(content_blocks, idx, i) ==
    LET block == content_blocks[i]
        img_count == Cardinality({j \in 1..i :
                        /\ content_blocks[j].type = "image"
                        /\ content_blocks[j].data # ""
                        /\ content_blocks[j].caption # ""})
    IN
    IF block.type = "text" /\ block.content # ""
    THEN R(<<U("para", idx, i, 0, block.content, 0)>>, FALSE)
    ELSE IF block.type = "image" /\ block.data # "" /\ block.caption # ""
    THEN process_image_block(block, idx, i, img_count)
    ELSE R(<<>>, FALSE)

\* pdf-generator-fallback.generate_reportlab_pdf, one block: the caption is
\* optional and carries the section number only ("Fig. <sec>. <caption>")
fallback_block(content_blocks, idx, i) ==
    LET block == content_blocks[i] IN
    IF block.type = "text" /\ block.content # ""
    THEN R(<<U("para", idx, i, 0, body_text("fallback", block.content), 0)>>, FALSE)
    ELSE IF block.type = "image" /\ block.data # "" THEN
        IF ~B64DecodeOk(block.data) \/ ~ImageOk(block.data) THEN R(<<>>, FALSE)
        ELSE R(<<U("picture", idx, i, 0, "", 0)>>
               \o (IF block.caption # ""
                   THEN <<U("caption", idx, i, 0, block.caption, 0)>> ELSE <<>>), FALSE)
    ELSE R(<<>>, FALSE)

\* figure_counter of create_ieee_pdf after the first i blocks
ieeepdf_fc(content_blocks, i, fc0) ==
    fc0 + Cardinality({j \in 1..i : ieeepdf_counts(content_blocks[j])})

\* The loop over the content blocks of one section
content_block_loop(im, content_blocks, idx, fc0) ==
    ThenAll([i \in 1..Len(content_blocks) |->
        CASE im \in {"fixed", "genpdf"} -> fixed_block(im, content_blocks, idx, i)
          [] im = "docgen" -> docgen_block(content_blocks, idx, i)
          [] im = "ieeedoc" -> ieeedoc_block(content_blocks, idx, i)
          [] im = "ieeepdf" -> ieeepdf_block(content_blocks, idx, i,
                                             ieeepdf_fc(content_blocks, i, fc0))
          [] im = "identical" -> identical_block(content_blocks, idx, i)
          [] im = "fallback" -> fallback_block(content_blocks, idx, i)])

----------------------------------------------------------------------------
(* Subsections.  A subsection is [id, parentId, level, title, content];     *)
(* id = 0, parentId = 0 and level = 0 stand for an absent field.  The ids   *)
(* 1..9 stand for id strings without '_', an id 10*a + b for the id string  *)
(* "a_b".                                                                   *)

\* s.get('level', 1)
Lvl(s) == IF s.level = 0 THEN 1 ELSE s.level

\* The deepest level at which the recursive implementations still descend:
\* "if level < 5" guards the recursive call
NestLimit == 5

SubUnits(s, sec, path, level) ==
    (IF s.title # "" THEN <<USub("subheading", sec, path, s.title, level)>> ELSE <<>>)
    \o (IF s.content # "" THEN <<USub("subpara", sec, path, s.content, level)>> ELSE <<>>)

\* The flat loop of ieee_generator_fixed, document_generator,
\* ieee_document_generator, ieee_pdf_generator and pdf_generator_identical:
\* every entry of subsections is rendered as "<section>.<position>"
flat_subsections(subsections, idx) ==
    R(Flatten([k \in 1..Len(subsections) |->
                SubUnits(subsections[k], idx, <<idx, k>>, 1)]), FALSE)

\* Variant of genpdf_descend that is off by one level
genpdf_descend_off_by_one(level) == level <= NestLimit

\* Should add_nested_subsection descend below a child rendered at level?
genpdf_descend(level) == level < NestLimit

\* generate-pdf.add_section.add_nested_subsection
RECURSIVE add_nested_subsection(_, _, _, _, _)
add_nested_subsection(all_subsections, parent_id, parent_number, level, idx) ==
    LET child_subsections ==
            SelectSeq(all_subsections,
                      LAMBDA s : s.parentId = parent_id /\ Lvl(s) = level)
        one(k) ==
            LET child_sub == child_subsections[k]
                child_number == Append(parent_number, k)
            IN Then(R(SubUnits(child_sub, idx, child_number, level), FALSE),
                    IF genpdf_descend(level)
                    THEN IF child_sub.id = 0 THEN R(<<>>, TRUE)   \* KeyError 'id'
                         ELSE add_nested_subsection(all_subsections, child_sub.id,
                                                    child_number, level + 1, idx)
                    ELSE R(<<>>, FALSE))
    IN ThenAll([k \in 1..Len(child_subsections) |-> one(k)])

\* generate-pdf.add_section.add_subsection_recursive
add_subsection_recursive(subsections, section_idx) ==
    LET level_1_subsections ==
            SelectSeq(subsections, LAMBDA s : Lvl(s) = 1 /\ s.parentId = 0)
        one(k) ==
            LET subsection == level_1_subsections[k] IN
            Then(R(SubUnits(subsection, section_idx, <<section_idx, k>>, 1), FALSE),
                 IF subsection.id = 0 THEN R(<<>>, TRUE)          \* KeyError 'id'
                 ELSE add_nested_subsection(subsections, subsection.id,
                                            <<section_idx, k>>, 2, section_idx))
    IN ThenAll([k \in 1..Len(level_1_subsections) |-> one(k)])

\* parent_numbering.split('_')[-1] for parent_numbering = "<number>_<id>":
\* the part of the id after its last '_'
last_segment(id) == IF id >= 10 THEN id % 10 ELSE id

\* Should add_subsections_recursive descend below an entry rendered at level?
fallback_descend(level) == level < NestLimit

\* pdf-generator-fallback.add_subsections_recursive.  parent is the id taken
\* from parent_numbering.split('_')[-1], base the number before the '_'.
\* The loop carries subsection_number, which is assigned only when the entry
\* has a title: sn is that variable (<<>>: not yet bound in this call).
RECURSIVE fallback_sub_loop(_, _, _, _, _, _, _)
RECURSIVE add_subsections_recursive(_, _, _, _, _)
add_subsections_recursive(subsections, section_num, parent, base, level) ==
    LET current_level_subs ==
            IF level = 1
            THEN SelectSeq(subsections, LAMBDA s : Lvl(s) = 1 /\ s.parentId = 0)
            ELSE SelectSeq(subsections, LAMBDA s : s.parentId = parent /\ Lvl(s) = level)
    IN fallback_sub_loop(subsections, section_num, base, level, current_level_subs, 1, <<>>)

fallback_sub_loop(subsections, section_num, base, level, subs, j, sn) ==
    IF j > Len(subs) THEN R(<<>>, FALSE)
    ELSE
    LET subsection == subs[j]
        subsection_number ==
            IF subsection.title # ""
            THEN (IF level = 1 THEN <<section_num, j>> ELSE Append(base, j))
            ELSE sn
        own == (IF subsection.title # ""
                THEN <<USub("subheading", section_num, subsection_number, subsection.title, level)>>
                ELSE <<>>)
               \o (IF subsection.content # ""
                   THEN <<USub("subpara", section_num, subsection_number, subsection.content, level)>>
                   ELSE <<>>)
        has_children ==
            \E k \in 1..Len(subsections) :
                subsections[k].parentId # 0 /\ subsections[k].parentId = subsection.id
        below ==
            IF subsection.id = 0 THEN R(<<>>, TRUE)               \* KeyError 'id'
            ELSE IF has_children /\ fallback_descend(level)
            THEN IF subsection_number = <<>> THEN R(<<>>, TRUE)   \* UnboundLocalError
                 ELSE add_subsections_recursive(subsections, section_num,
                                                last_segment(subsection.id),
                                                subsection_number, level + 1)
            ELSE R(<<>>, FALSE)
    IN Then(Then(R(own, FALSE), below),
            fallback_sub_loop(subsections, section_num, base, level, subs, j + 1,
                              subsection_number))

----------------------------------------------------------------------------
(* One section *)

\* section_data.get('contentBlocks', []) or section_data.get('content_blocks', [])
blocks_or_alias(section_data) ==
    IF section_data.contentBlocks # <<>> THEN section_data.contentBlocks
    ELSE section_data.content_blocks

section_heading(section_data, idx) ==
    IF section_data.title # ""
    THEN <<U("heading", idx, 0, idx, Upper(section_data.title), 0)>>
    ELSE <<>>

\* Variant of legacy_applies that looks at the content field alone
legacy_applies_content_only(content_blocks, content) == content # ""

\* "if not content_blocks and section_data.get('content')"
legacy_applies(content_blocks, content) == content_blocks = <<>> /\ content # ""

\* The legacy paragraph (blk = 0 tells it from a content block's paragraph)
legacy_content(im, content_blocks, section_data, idx) ==
    IF legacy_applies(content_blocks, section_data.content)
    THEN <<U("para", idx, 0, 0, body_text(im, section_data.content), 0)>>
    ELSE <<>>

\* ieee_generator_fixed.add_section
fixed_add_section(section_data, section_idx) ==
    LET content_blocks == blocks_or_alias(section_data) IN
    ThenAll(<<R(section_heading(section_data, section_idx), FALSE),
              content_block_loop("fixed", content_blocks, section_idx, 0),
              R(legacy_content("fixed", content_blocks, section_data, section_idx), FALSE),
              flat_subsections(section_data.subsections, section_idx)>>)

\* generate-pdf.add_section (the legacy paragraph goes through
\* add_justified_paragraph, which sanitizes but does not parse markup)
genpdf_add_section(section_data, section_idx) ==
    LET content_blocks == blocks_or_alias(section_data) IN
    ThenAll(<<R(section_heading(section_data, section_idx), FALSE),
              content_block_loop("genpdf", content_blocks, section_idx, 0),
              R(legacy_content("fixed", content_blocks, section_data, section_idx), FALSE),
              add_subsection_recursive(section_data.subsections, section_idx)>>)

\* document_generator.add_section: no legacy content branch
docgen_add_section(section_data, section_idx) ==
    ThenAll(<<R(section_heading(section_data, section_idx), FALSE),
              content_block_loop("docgen", section_data.contentBlocks, section_idx, 0),
              flat_subsections(section_data.subsections, section_idx)>>)

\* ieee_document_generator.add_section: text blocks only, no legacy branch
ieeedoc_add_section(section_data, section_idx) ==
    ThenAll(<<R(section_heading(section_data, section_idx), FALSE),
              content_block_loop("ieeedoc", section_data.contentBlocks, section_idx, 0),
              flat_subsections(section_data.subsections, section_idx)>>)

\* ieee_pdf_generator.create_ieee_pdf, body of the loop over sections;
\* fc0 is figure_counter on entry
ieeepdf_section(section, idx, fc0) ==
    ThenAll(<<R(section_heading(section, idx), FALSE),
              content_block_loop("ieeepdf", section.contentBlocks, idx, fc0),
              R(legacy_content("ieeepdf", section.contentBlocks, section, idx), FALSE),
              flat_subsections(section.subsections, idx)>>)

\* pdf_generator_identical.add_sections, body of the loop over sections
identical_section(section_data, idx) ==
    LET content_blocks == blocks_or_alias(section_data) IN
    ThenAll(<<R(section_heading(section_data, idx), FALSE),
              content_block_loop("identical", content_blocks, idx, 0),
              R(legacy_content("identical", content_blocks, section_data, idx), FALSE),
              flat_subsections(section_data.subsections, idx)>>)

\* pdf-generator-fallback.generate_reportlab_pdf, body of the loop over
\* sections: the heading is written even without a title
fallback_section(section, idx) ==
    ThenAll(<<R(<<U("heading", idx, 0, idx, Upper(section.title), 0)>>, FALSE),
              content_block_loop("fallback", section.contentBlocks, idx, 0),
              IF section.subsections # <<>>
              THEN add_subsections_recursive(section.subsections, idx, 0, <<>>, 1)
              ELSE R(<<>>, FALSE)>>)

\* The section routine of implementation im
add_section(im, section_data, idx, fc0) ==
    CASE im = "fixed" -> fixed_add_section(section_data, idx)
      [] im = "genpdf" -> genpdf_add_section(section_data, idx)
      [] im = "docgen" -> docgen_add_section(section_data, idx)
      [] im = "ieeedoc" -> ieeedoc_add_section(section_data, idx)
      [] im = "ieeepdf" -> ieeepdf_section(section_data, idx, fc0)
      [] im = "identical" -> identical_section(section_data, idx)
      [] im = "fallback" -> fallback_section(section_data, idx)

----------------------------------------------------------------------------
(* Title, authors, abstract, keywords, references *)

DocxImpls == {"fixed", "genpdf", "docgen", "ieeedoc"}
PdfImpls == {"ieeepdf", "identical", "fallback"}
Impls == DocxImpls \cup PdfImpls

\* add_title / the "Title" segment of the PDF generators
add_title(im, title) ==
    CASE im \in {"fixed", "docgen"} -> <<U("title", 0, 0, 0, title, 0)>>
      [] im = "genpdf" -> <<U("title", 0, 0, 0, sanitize_text(title), 0)>>
      [] im = "ieeedoc" ->
            <<U("title", 0, 0, 0, IF title = "" THEN "Untitled" ELSE title, 0)>>
      [] OTHER -> IF title # "" THEN <<U("title", 0, 0, 0, title, 0)>> ELSE <<>>

\* The paragraphs of one author: name, then the detail lines
author_units(author, col) ==
    <<U("author", 0, 0, col, author.name, 0)>>
    \o (IF author.department # ""
        THEN <<U("author_detail", 0, 0, col, author.department, 0)>> ELSE <<>>)

RECURSIVE join_names(_)
join_names(authors) ==
    IF authors = <<>> THEN ""
    ELSE IF Len(authors) = 1 THEN Head(authors).name
    ELSE Head(authors).name \o ", " \o join_names(Tail(authors))

\* add_authors / add_authors_table / the "Authors" segment
add_authors(im, authors) ==
    LET named == SelectSeq(authors, LAMBDA a : a.name # "") IN
    IF authors = <<>> THEN <<>>
    ELSE CASE im \in DocxImpls ->
                \* doc.add_table(rows=1, cols=len(authors)); unnamed authors
                \* leave their cell empty
                <<U("author_table", 0, 0, Len(authors), "", 0)>>
                \o Flatten([k \in 1..Len(authors) |->
                        IF authors[k].name # "" THEN author_units(authors[k], k) ELSE <<>>])
                \o <<U("empty", 0, 0, 0, "", 0)>>
           [] im = "ieeepdf" ->
                Flatten([k \in 1..Len(named) |-> author_units(named[k], k)])
           [] im = "identical" ->
                IF named = <<>> THEN <<>>
                ELSE <<U("author_table", 0, 0, Len(named), "", 0)>>
                     \o Flatten([k \in 1..Len(named) |-> author_units(named[k], k)])
           [] im = "fallback" ->
                <<U("author_line", 0, 0, 0, join_names(authors), 0)>>

add_abstract(im, abstract) ==
    IF abstract # "" THEN <<U("abstract", 0, 0, 0, abstract, 0)>> ELSE <<>>

\* add_keywords: the python-docx generators add an empty dummy paragraph
add_keywords(im, keywords) ==
    IF keywords = "" THEN <<>>
    ELSE <<U("keywords", 0, 0, 0, keywords, 0)>>
         \o (IF im \in DocxImpls THEN <<U("empty", 0, 0, 0, "", 0)>> ELSE <<>>)

\* The heading text of the references list
references_heading(im) == IF im = "docgen" THEN "References" ELSE "REFERENCES"

\* The text written after "[n] " for one reference
reference_text(im, ref) ==
    IF im = "genpdf" THEN str_of_ref(ref) ELSE ref.text

\* Is an entry written for this reference?
reference_shown(im, ref) ==
    IF im \in {"genpdf", "ieeedoc", "fallback"} THEN TRUE ELSE ref.text # ""

\* add_references / the "References" segment
add_references(im, references) ==
    IF references = <<>> THEN <<>>
    ELSE <<U("refheading", 0, 0, 0, references_heading(im), 0)>>
         \o Flatten([k \in 1..Len(references) |->
                IF reference_shown(im, references[k])
                THEN <<U("ref", 0, 0, k, reference_text(im, references[k]), 0)>>
                ELSE <<>>])

----------------------------------------------------------------------------
(* Requests.  Each run draws its inputs from one family (scope):            *)
(*   "fig"  sections made of content blocks with and without images         *)
(*   "doc"  whole documents: title, authors, legacy content, references     *)
(*   "img"  as "fig", with its own bounds                                   *)
(*   "sub"  sections with parentId trees of subsections                     *)
(*   "opt"  requests whose optional fields are absent                        *)

Block(type, content, data, caption) ==
    [type |-> type, content |-> content, data |-> data, caption |-> caption]

Section(title, contentBlocks, content, subsections) ==
    [title |-> title, contentBlocks |-> contentBlocks, content_blocks |-> <<>>,
     content |-> content, subsections |-> subsections]

Sub(id, parentId, level, title, content) ==
    [id |-> id, parentId |-> parentId, level |-> level, title |-> title,
     content |-> content]

Author(name, department) == [name |-> name, department |-> department]

FigBlocks ==
    { Block("text", "a", "", ""),
      Block("text", "a", "good", "c"),
      Block("text", "a", "badb64", "c"),
      Block("image", "", "good", "c"),
      Block("image", "", "badb64", "c"),
      Block("image", "", "badimg", "c") }

FigSections ==
    { Section("Intro", bl, "", <<>>) : bl \in SeqUpTo(FigBlocks, MaxBlocks) }

ImgSections ==
    { Section("Intro", bl, "", <<>>) : bl \in SeqUpTo(FigBlocks, MaxImgBlocks) }

DocSections ==
    { Section("Intro", <<Block("text", "Hello", "", "")>>, "", <<>>),
      Section("Intro", <<>>, "Old", <<>>),
      Section("Method", <<Block("text", "Hello", "", "")>>, "Old", <<>>),
      Section("Method", <<Block("image", "", "prefixed", "c")>>, "Old", <<>>),
      Section("", <<>>, "<p>Hello</p>", <<>>),
      [Section("Intro", <<>>, "Old", <<>>)
          EXCEPT !.content_blocks = <<Block("text", "Hello", "", "")>>] }

\* A parentId chain of n subsections: entry k is the child of entry k-1 and
\* declares level k
Chain(n) == [k \in 1..n |-> Sub(k, k - 1, k, "S", "")]

SubShapes == {"chain", "nolevel", "selfparent", "twins", "untitled", "content"}

Shape(sh, n) ==
    CASE sh = "chain" -> Chain(n)
      [] sh = "nolevel" -> [k \in 1..n |-> Sub(k, k - 1, 0, "S", "")]
      [] sh = "selfparent" ->
            [k \in 1..n |-> IF k = n /\ n > 1 THEN Sub(k, k, k, "S", "") ELSE Chain(n)[k]]
      [] sh = "twins" ->
            IF n = 0 THEN <<>> ELSE Chain(n) \o <<Sub(n + 1, 1, 2, "S2", "")>>
      [] sh = "untitled" ->
            [k \in 1..n |-> IF k = 1 THEN Sub(1, 0, 1, "", "x") ELSE Chain(n)[k]]
      [] sh = "content" -> [k \in 1..n |-> Sub(k, k - 1, k, "", "x")]

SubLists == { Shape(sh, n) : sh \in SubShapes, n \in 0..MaxChain }

SubSections == { Section("Intro", <<>>, "", subs) : subs \in SubLists }

\* Malformed subsection lists of n entries: a parentId cycle that no top-level
\* entry leads into, two ids that name each other as parent on every level,
\* one id that names itself as parent on every level, every id twice,
\* parentIds that no entry carries, every entry its own parent; and a well
\* formed chain whose ids contain '_'
WalkShapes ==
    {"cycle", "dupcycle", "selfdup", "duplicate", "dangling", "allself", "underscore"}

Malformed(sh, n) ==
    CASE sh = "cycle" ->
            [k \in 1..n |-> IF k = 1 THEN Sub(1, 0, 1, "S", "")
                            ELSE Sub(k, IF k = n THEN 2 ELSE k + 1, 2, "S", "")]
      [] sh = "dupcycle" ->
            [k \in 1..n |-> Sub(2 - (k % 2), IF k = 1 THEN 0 ELSE 1 + (k % 2), k, "S", "")]
      [] sh = "selfdup" ->
            [k \in 1..n |-> Sub(1, IF k = 1 THEN 0 ELSE 1, k, "S", "")]
      [] sh = "duplicate" -> Chain(n) \o Chain(n)
      [] sh = "dangling" ->
            [k \in 1..n |-> IF k = 1 THEN Sub(1, 0, 1, "S", "") ELSE Sub(k, n + k, 2, "S", "")]
      [] sh = "allself" -> [k \in 1..n |-> Sub(k, k, k, "S", "")]
      [] sh = "underscore" ->
            [k \in 1..n |-> Sub(10 + k, IF k = 1 THEN 0 ELSE 9 + k, k, "S", "")]

WalkLists == SubLists \cup { Malformed(sh, n) : sh \in WalkShapes, n \in 0..MaxChain }

WalkSections == { Section("Intro", <<>>, "", subs) : subs \in WalkLists }

\* Sections whose optional fields are absent: a block without type, without
\* content; a subsection without id, level and parentId, with or without
\* title; a section without title and content
OptSections ==
    { Section("Intro", <<Block("text", "a", "", "")>>, "", <<>>),
      Section("Intro", <<Block("", "a", "", "")>>, "", <<>>),
      Section("Intro", <<Block("text", "", "", "")>>, "", <<>>),
      Section("Intro", <<>>, "", <<Sub(0, 0, 0, "S", "x")>>),
      Section("Intro", <<>>, "", <<Sub(0, 0, 0, "", "x")>>),
      Section("Intro", <<>>, "", <<Sub(1, 0, 0, "S", "")>>),
      Section("", <<>>, "", <<>>) }

Titles(sc) == IF sc = "doc" THEN {"", "T"} ELSE {"T"}

AuthorLists(sc) ==
    IF sc = "doc"
    THEN { <<>>, <<Author("A", "")>>, <<Author("", "Dept"), Author("B", "Dept")>> }
    ELSE { <<Author("A", "")>> }

Abstracts(sc) == IF sc \in {"doc", "opt"} THEN {"", "Abs"} ELSE {""}

KeywordSets(sc) == IF sc \in {"doc", "opt"} THEN {"", "kw"} ELSE {""}

Sections(sc) ==
    CASE sc = "fig" -> FigSections
      [] sc = "img" -> ImgSections
      [] sc = "doc" -> DocSections
      [] sc = "sub" -> SubSections
      [] sc = "opt" -> OptSections
      [] sc = "walk" -> WalkSections

RefLists(sc) ==
    IF sc = "doc"
    THEN { <<>>, <<[text |-> "Ref 1"]>>, <<[text |-> "Ref 1"], [text |-> "Ref 2"]>>,
           <<[text |-> ""], [text |-> "Ref 2"]>> }
    ELSE IF sc = "opt"
    THEN { <<>>, <<[text |-> ""]>>, <<[text |-> "Ref 1"]>> }
    ELSE { <<>> }

SectionLimit(sc) ==
    CASE sc = "img" -> MaxImgSections
      [] sc = "walk" -> MaxWalkSections
      [] OTHER -> MaxSections

EmptyForm ==
    [title |-> "", authors |-> <<>>, abstract |-> "", keywords |-> "",
     sections |-> <<>>, references |-> <<>>]

----------------------------------------------------------------------------
(* The generator as a state machine: generate_ieee_document,               *)
(* create_ieee_pdf, generate_ieee_pdf, generate_reportlab_pdf              *)

\* The order of the emission steps.  generate-pdf inserts the section break
\* before the abstract; the ReportLab generators have no section break.
NextPc(im, p) ==
    CASE p = "title" -> "authors"
      [] p = "authors" -> IF im = "genpdf" THEN "break" ELSE "abstract"
      [] p = "abstract" -> "keywords"
      [] p = "keywords" -> IF im \in {"fixed", "docgen", "ieeedoc"} THEN "break" ELSE "sections"
      [] p = "break" -> IF im = "genpdf" THEN "abstract" ELSE "sections"
      [] p = "sections" -> "save"
      [] p = "save" -> "done"

\* PDF bytes: the first five bytes, and who produced them
PdfBytes(producer) == [magic |-> "%PDF-", producer |-> producer]

NoBytes == [magic |-> "", producer |-> "none"]

NoRequest == [kind |-> "none", title |-> "", authors |-> <<>>, preview |-> FALSE]

HttpIdle ==
    /\ h_impl = "none" /\ h_pc = "idle" /\ req = NoRequest
    /\ status_lines = <<>> /\ body = "none" /\ rendering = FALSE /\ has_utils = TRUE
    /\ pdf_bytes = NoBytes

ConvIdle ==
    /\ c_impl = "none" /\ c_pc = "idle" /\ outcome = "none" /\ files = {} /\ calls = 0

Procs == 1..MaxConversions

RaceIdle ==
    /\ cv_pc = <<>> /\ input_file = 0 /\ output_file = 0
    /\ loaded = <<>> /\ pdf_data = <<>> /\ exit_code = <<>>

FnIdle == fn = "none" /\ arg = "none" /\ result = <<>>

NoProxy ==
    [url |-> 0, attempt |-> 0, per_url |-> <<0, 0>>, first_200 |-> 0, first_json |-> 0,
     python_response |-> <<>>]

NoChain == [generator |-> FALSE, stages |-> <<>>, results |-> <<>>, written |-> <<>>]

PvIdle == proxy = NoProxy /\ chain = NoChain

RenderIdle ==
    /\ impl = "none" /\ pc = "idle" /\ form_data = EmptyForm /\ doc = <<>>
    /\ figure_counter = 0

InitRender(sc) ==
    /\ scope = sc
    /\ impl \in Impls
    /\ pc = "title"
    /\ form_data = EmptyForm
    /\ doc = <<>>
    /\ figure_counter = 0
    /\ HttpIdle
    /\ ConvIdle
    /\ RaceIdle
    /\ FnIdle
    /\ PvIdle

AddTitle ==
    /\ pc = "title"
    /\ \E title \in Titles(scope) :
        /\ form_data' = [form_data EXCEPT !.title = title]
        /\ doc' = doc \o add_title(impl, title)
    /\ pc' = NextPc(impl, pc)
    /\ UNCHANGED <<scope, impl, figure_counter, http_vars, conv_vars, race_vars, fn_vars, pv_vars>>

AddAuthors ==
    /\ pc = "authors"
    /\ \E authors \in AuthorLists(scope) :
        /\ form_data' = [form_data EXCEPT !.authors = authors]
        /\ doc' = doc \o add_authors(impl, authors)
    /\ pc' = NextPc(impl, pc)
    /\ UNCHANGED <<scope, impl, figure_counter, http_vars, conv_vars, race_vars, fn_vars, pv_vars>>

AddAbstract ==
    /\ pc = "abstract"
    /\ \E abstract \in Abstracts(scope) :
        /\ form_data' = [form_data EXCEPT !.abstract = abstract]
        /\ doc' = doc \o add_abstract(impl, abstract)
    /\ pc' = NextPc(impl, pc)
    /\ UNCHANGED <<scope, impl, figure_counter, http_vars, conv_vars, race_vars, fn_vars, pv_vars>>

AddKeywords ==
    /\ pc = "keywords"
    /\ \E keywords \in KeywordSets(scope) :
        /\ form_data' = [form_data EXCEPT !.keywords = keywords]
        /\ doc' = doc \o add_keywords(impl, keywords)
    /\ pc' = NextPc(impl, pc)
    /\ UNCHANGED <<scope, impl, figure_counter, http_vars, conv_vars, race_vars, fn_vars, pv_vars>>

\* doc.add_section(WD_SECTION.CONTINUOUS) and the two-column setup
ColumnBreak ==
    /\ pc = "break"
    /\ doc' = Append(doc, U("column_break", 0, 0, 0, "", 0))
    /\ pc' = NextPc(impl, pc)
    /\ UNCHANGED <<scope, impl, form_data, figure_counter, http_vars, conv_vars, race_vars, fn_vars, pv_vars>>

\* One iteration of "for idx, section_data in enumerate(sections, 1)".
\* An exception that leaves the section routine ends the generation.
AddSection ==
    /\ pc = "sections"
    /\ Len(form_data.sections) < SectionLimit(scope)
    /\ \E section_data \in Sections(scope) :
        LET idx == Len(form_data.sections) + 1
            r == add_section(impl, section_data, idx, figure_counter)
        IN /\ form_data' = [form_data EXCEPT !.sections = Append(@, section_data)]
           /\ doc' = doc \o r.units
           /\ pc' = IF r.raised THEN "failed" ELSE "sections"
           /\ figure_counter' =
                IF impl = "ieeepdf"
                THEN ieeepdf_fc(section_data.contentBlocks,
                                Len(section_data.contentBlocks), figure_counter)
                ELSE figure_counter
    /\ UNCHANGED <<scope, impl, http_vars, conv_vars, race_vars, fn_vars, pv_vars>>

AddReferences ==
    /\ pc = "sections"
    /\ \E references \in RefLists(scope) :
        /\ form_data' = [form_data EXCEPT !.references = references]
        /\ doc' = doc \o add_references(impl, references)
    /\ pc' = NextPc(impl, pc)
    /\ UNCHANGED <<scope, impl, figure_counter, http_vars, conv_vars, race_vars, fn_vars, pv_vars>>

\* doc.save(buffer) / doc.build(story)
Save ==
    /\ pc = "save"
    /\ pc' = NextPc(impl, pc)
    /\ UNCHANGED <<scope, impl, form_data, doc, figure_counter, http_vars, conv_vars, race_vars, fn_vars, pv_vars>>

NextRender ==
    \/ AddTitle
    \/ AddAuthors
    \/ AddAbstract
    \/ AddKeywords
    \/ ColumnBreak
    \/ AddSection
    \/ AddReferences
    \/ Save

InitFig == InitRender("fig")
InitDoc == InitRender("doc")
InitSub == InitRender("sub")
InitImg == InitRender("img")
InitOpt == InitRender("opt")
InitWalk == InitRender("walk")

SpecFig == InitFig /\ [][NextRender]_vars
SpecDoc == InitDoc /\ [][NextRender]_vars
SpecSub == InitSub /\ [][NextRender]_vars
SpecImg == InitImg /\ [][NextRender]_vars
SpecOpt == InitOpt /\ [][NextRender]_vars
SpecWalk == InitWalk /\ [][NextRender]_vars

----------------------------------------------------------------------------
(* The POST handlers: api/generate/docx-to-pdf.py, api/generate-pdf.py,     *)
(* api/generate/pdf-preview.py                                              *)

Handlers == {"docx_to_pdf", "generate_pdf", "pdf_preview"}

HttpAuthorLists == { <<>>, <<Author("A", "")>>, <<Author("", "Dept")>> }

\* kind: "json" a JSON object, "invalid" a body that is no JSON, "empty" no body
Requests ==
    { [kind |-> "json", title |-> t, authors |-> a, preview |-> p] :
          t \in {"", "T"}, a \in HttpAuthorLists, p \in BOOLEAN }
    \cup { [kind |-> k, title |-> "", authors |-> <<>>, preview |-> p] :
          k \in {"invalid", "empty"}, p \in BOOLEAN }

\* any(author.get('name') for author in authors)
any_named(authors) == \E k \in 1..Len(authors) : authors[k].name # ""

\* DocumentValidator.validate_document_request of python_utils: TRUE when the
\* request passes, FALSE when it raises ValueError
validate_document_request(data) == data.title # "" /\ any_named(data.authors)

\* The fallback DocumentValidator of generate-pdf.py
validate_document_request_fallback(data) == TRUE

\* send_response(code) followed by the headers and a body
Reply(code, b) ==
    /\ status_lines' = Append(status_lines, code)
    /\ body' = b
    /\ h_pc' = "done"

\* A body written under the status line that is already out
BodyOnly(b) ==
    /\ status_lines' = status_lines
    /\ body' = b
    /\ h_pc' = "done"

\* An exception leaves do_POST: nothing is written
Crash ==
    /\ status_lines' = status_lines
    /\ body' = body
    /\ h_pc' = "crashed"

\* generate-pdf.py answers an error through ProductionErrorHandler.  The
\* fallback class does not take the keywords request_id and debug_info, so the
\* call raises TypeError; the outer handler then reads VercelDiagnostics, which
\* the fallback does not define, and the NameError leaves do_POST.
GeneratePdfError(code) == IF has_utils THEN Reply(code, "error") ELSE Crash

InitHttp ==
    /\ scope = "http"
    /\ RenderIdle
    /\ ConvIdle
    /\ RaceIdle
    /\ FnIdle
    /\ PvIdle
    /\ h_impl \in Handlers
    /\ has_utils \in (IF h_impl = "generate_pdf" THEN BOOLEAN ELSE {TRUE})
    /\ h_pc = "recv"
    /\ req = NoRequest
    /\ status_lines = <<>>
    /\ body = "none"
    /\ rendering = FALSE
    /\ pdf_bytes = NoBytes

\* The request arrives; docx-to-pdf sends its status line 200 right away
Receive ==
    /\ h_pc = "recv"
    /\ \E r \in Requests : req' = r
    /\ status_lines' = IF h_impl = "docx_to_pdf" THEN <<200>> ELSE status_lines
    /\ h_pc' = "parse"
    /\ UNCHANGED <<scope, h_impl, body, rendering, has_utils, pdf_bytes, render_vars, conv_vars, race_vars, fn_vars, pv_vars>>

\* Content-Length and json.loads
Parse ==
    /\ h_pc = "parse"
    /\ CASE req.kind = "json" ->
                /\ h_pc' = "validate"
                /\ UNCHANGED <<status_lines, body>>
         [] req.kind = "empty" /\ h_impl = "docx_to_pdf" -> BodyOnly("error")
         [] OTHER ->
                \* json.JSONDecodeError
                IF h_impl = "generate_pdf" THEN GeneratePdfError(400)
                ELSE Reply(400, "error")
    /\ UNCHANGED <<scope, h_impl, req, rendering, has_utils, pdf_bytes, render_vars, conv_vars, race_vars, fn_vars, pv_vars>>

\* The checks of the required fields
Validate ==
    /\ h_pc = "validate"
    /\ CASE h_impl = "docx_to_pdf" ->
                IF req.title = "" THEN BodyOnly("error")
                ELSE h_pc' = "generate" /\ UNCHANGED <<status_lines, body>>
         [] h_impl = "pdf_preview" ->
                IF req.title = "" \/ req.authors = <<>> \/ ~any_named(req.authors)
                THEN Reply(400, "error")
                ELSE h_pc' = "generate" /\ UNCHANGED <<status_lines, body>>
         [] h_impl = "generate_pdf" ->
                IF has_utils /\ ~validate_document_request(req)
                THEN Reply(400, "error")
                ELSE IF ~has_utils /\ ~validate_document_request_fallback(req)
                THEN Crash
                ELSE h_pc' = "generate" /\ UNCHANGED <<status_lines, body>>
    /\ UNCHANGED <<scope, h_impl, req, rendering, has_utils, pdf_bytes, render_vars, conv_vars, race_vars, fn_vars, pv_vars>>

\* What the call of the document generator can do: "unavailable" the module
\* or class is not there, "badcall" the call does not fit the signature,
\* "raised" the generator ran and raised, "ok" it returned a document
GenerateOutcomes(h) ==
    CASE h = "docx_to_pdf" -> {"unavailable"}
      [] h = "pdf_preview" -> {"unavailable", "badcall", "raised", "ok"}
      [] h = "generate_pdf" -> {"raised", "ok"}

Generate ==
    /\ h_pc = "generate"
    /\ \E o \in GenerateOutcomes(h_impl) :
        /\ rendering' = (o \in {"raised", "ok"})
        /\ IF o = "ok" THEN h_pc' = "respond" /\ UNCHANGED <<status_lines, body>>
           ELSE IF h_impl = "generate_pdf" THEN GeneratePdfError(500)
           ELSE Reply(500, "error")
    /\ UNCHANGED <<scope, h_impl, req, has_utils, pdf_bytes, render_vars, conv_vars, race_vars, fn_vars, pv_vars>>

\* What the conversion block of pdf-preview.py can meet: "unavailable"
\* docx2pdf cannot be imported, "ok" docx2pdf.convert writes the PDF,
\* "nooutput" it returns without a PDF (open(pdf_path) raises), "timeout" it
\* raises
PreviewConversions == {"unavailable", "ok", "nooutput", "timeout"}

\* Calls of docx2pdf.convert made for one request
converter_runs(o) == IF o = "unavailable" THEN 0 ELSE 1

\* Variant of preview_body that answers a failed conversion with an error
preview_body_no_fallback(o) == IF o = "ok" THEN "pdf" ELSE "error"

\* The body pdf-preview.py serves after the conversion block
preview_body(o) == IF o = "ok" THEN "pdf" ELSE "docx"

\* The answer that carries the document; pdf-preview.py first tries the
\* conversion to PDF
Respond ==
    /\ h_pc = "respond"
    /\ CASE h_impl = "generate_pdf" ->
                /\ IF req.preview THEN Reply(200, "success_json")
                   ELSE IF has_utils THEN Reply(200, "docx")
                   ELSE Crash        \* send_binary_response is not defined
                /\ UNCHANGED <<outcome, calls>>
         [] h_impl = "pdf_preview" ->
                \E o \in PreviewConversions :
                    /\ outcome' = o
                    /\ calls' = calls + converter_runs(o)
                    /\ Reply(200, preview_body(o))
         [] OTHER -> Reply(200, "docx") /\ UNCHANGED <<outcome, calls>>
    /\ UNCHANGED <<scope, h_impl, req, rendering, has_utils, pdf_bytes, render_vars,
                   c_impl, c_pc, files, race_vars, fn_vars, pv_vars>>

NextHttp ==
    \/ Receive
    \/ Parse
    \/ Validate
    \/ Generate
    \/ Respond

SpecHttp == InitHttp /\ [][NextHttp]_vars

----------------------------------------------------------------------------
(* The conversion endpoint api/convert-docx-pdf.py: handler.do_POST,        *)
(* convert_docx_to_pdf, create_fallback_pdf, create_minimal_pdf.  The       *)
(* helpers come from python_utils or, when that import fails, from the      *)
(* fallback classes of the file (has_utils).                                *)

\* docx_data: "" absent, "valid" base64 of a DOCX, "notb64" no base64
EndpointRequests ==
    { [kind |-> "json", docx_data |-> d, preview |-> p] :
          d \in {"", "valid", "notb64"}, p \in BOOLEAN }
    \cup { [kind |-> "invalid", docx_data |-> "", preview |-> p] : p \in BOOLEAN }

InitEndpoint ==
    /\ scope = "endpoint"
    /\ RenderIdle
    /\ ConvIdle
    /\ RaceIdle
    /\ FnIdle
    /\ PvIdle
    /\ h_impl = "convert_docx_pdf"
    /\ has_utils \in BOOLEAN
    /\ h_pc = "recv"
    /\ req = NoRequest
    /\ status_lines = <<>>
    /\ body = "none"
    /\ rendering = FALSE
    /\ pdf_bytes = NoBytes

\* An error answer goes through
\* ProductionErrorHandler.create_production_error_response(..., request_id=,
\* debug_info=).  The fallback class names these parameters req_id and debug:
\* the call raises TypeError, the outer handler then reads VercelDiagnostics,
\* which the fallback does not define, and the NameError leaves do_POST.
EndpointError(code) == IF has_utils THEN Reply(code, "error") ELSE Crash

EndpointReceive ==
    /\ h_pc = "recv"
    /\ \E r \in EndpointRequests : req' = r
    /\ h_pc' = "parse"
    /\ UNCHANGED <<scope, h_impl, status_lines, body, rendering, has_utils, pdf_bytes,
                   render_vars, conv_vars, race_vars, fn_vars, pv_vars>>

\* json.loads(post_data)
EndpointParse ==
    /\ h_pc = "parse"
    /\ IF req.kind = "json"
       THEN h_pc' = "decode" /\ UNCHANGED <<status_lines, body>>
       ELSE EndpointError(400)
    /\ UNCHANGED <<scope, h_impl, req, rendering, has_utils, pdf_bytes,
                   render_vars, conv_vars, race_vars, fn_vars, pv_vars>>

\* request_data.get('docx_data') and DocumentValidator.validate_base64_data.
\* The fallback validator is base64.b64decode, which raises binascii.Error
\* (a ValueError) or skips the characters outside the alphabet.
EndpointDecode ==
    /\ h_pc = "decode"
    /\ CASE req.docx_data = "" -> EndpointError(400)
         [] req.docx_data = "valid" ->
                h_pc' = "convert" /\ UNCHANGED <<status_lines, body>>
         [] OTHER ->
                IF has_utils THEN EndpointError(400)
                ELSE \/ EndpointError(400)
                     \/ h_pc' = "convert" /\ UNCHANGED <<status_lines, body>>
    /\ UNCHANGED <<scope, h_impl, req, rendering, has_utils, pdf_bytes,
                   render_vars, conv_vars, race_vars, fn_vars, pv_vars>>

\* What convert_docx_to_pdf can meet: "unavailable" docx2pdf cannot be
\* imported, "ok" convert writes the PDF, "nooutput" it writes none, "empty"
\* it writes an empty file, "timeout" it raises
EndpointConversions == {"unavailable", "ok", "nooutput", "empty", "timeout"}

\* handler.convert_docx_to_pdf up to its return or its call of
\* create_fallback_pdf
EndpointConvert ==
    /\ h_pc = "convert"
    /\ \E o \in EndpointConversions :
        /\ outcome' = o
        /\ calls' = calls + converter_runs(o)
        /\ IF o = "ok"
           THEN pdf_bytes' = PdfBytes("docx2pdf") /\ h_pc' = "respond"
           ELSE pdf_bytes' = pdf_bytes /\ h_pc' = "fallback"
    /\ UNCHANGED <<scope, h_impl, req, status_lines, body, rendering, has_utils,
                   render_vars, c_impl, c_pc, files, race_vars, fn_vars, pv_vars>>

\* handler.create_fallback_pdf: a page drawn with ReportLab, or, when that
\* raises, the literal PDF of create_minimal_pdf
EndpointFallback ==
    /\ h_pc = "fallback"
    /\ \E reportlab \in BOOLEAN :
        pdf_bytes' = IF reportlab THEN PdfBytes("reportlab") ELSE PdfBytes("minimal")
    /\ h_pc' = "respond"
    /\ UNCHANGED <<scope, h_impl, req, status_lines, body, rendering, has_utils,
                   render_vars, conv_vars, race_vars, fn_vars, pv_vars>>

\* The answer: JSON with the base64 of the PDF in preview mode,
\* send_binary_response otherwise.  The fallback branch of the import defines
\* no send_binary_response: NameError, answered through the error path.
EndpointRespond ==
    /\ h_pc = "respond"
    /\ IF req.preview THEN Reply(200, "success_json")
       ELSE IF has_utils THEN Reply(200, "pdf")
       ELSE EndpointError(500)
    /\ UNCHANGED <<scope, h_impl, req, rendering, has_utils, pdf_bytes,
                   render_vars, conv_vars, race_vars, fn_vars, pv_vars>>

NextEndpoint ==
    \/ EndpointReceive
    \/ EndpointParse
    \/ EndpointDecode
    \/ EndpointConvert
    \/ EndpointFallback
    \/ EndpointRespond

SpecEndpoint == InitEndpoint /\ [][NextEndpoint]_vars

----------------------------------------------------------------------------
(* DOCX to PDF conversion: server/convert-docx-pdf.py,                      *)
(* server/docx_to_pdf_converter.py, the conversion block of pdf-preview.py, *)
(* try_docx2pdf_conversion of pdf-generator-fallback.py                     *)

ConvImpls == {"convert_docx_pdf", "docx_to_pdf_converter", "pdf_preview", "try_docx2pdf"}

\* convert-docx-pdf.py works on the fixed paths /tmp/docx_convert/input.docx
\* and input.pdf; the others on fresh NamedTemporaryFile names
TempFile(ci, ext, call) == IF ci = "convert_docx_pdf" THEN <<ext, 0>> ELSE <<ext, call>>

\* How a call can begin: "no_input" stdin is empty, "unavailable" docx2pdf
\* cannot be imported, "written" the DOCX is written to its temporary file
StartOutcomes(ci) ==
    CASE ci = "convert_docx_pdf" -> {"no_input", "written"}
      [] ci = "docx_to_pdf_converter" -> {"written"}
      [] OTHER -> {"unavailable", "written"}

\* What the external converter can do: "ok" it writes the PDF, "nonzero" it
\* ends with a non-zero return code, "nooutput" it ends well without a PDF,
\* "timeout" the call raises (TimeoutExpired or any other exception)
RunOutcomes(ci) ==
    IF ci = "convert_docx_pdf" THEN {"ok", "nonzero", "nooutput", "timeout"}
    ELSE {"ok", "nooutput", "timeout"}

InitConv ==
    /\ scope = "conv"
    /\ RenderIdle
    /\ HttpIdle
    /\ RaceIdle
    /\ FnIdle
    /\ PvIdle
    /\ c_impl \in ConvImpls
    /\ c_pc = "start"
    /\ outcome = "none"
    /\ files = {}
    /\ calls = 1

ConvStart ==
    /\ c_pc = "start"
    /\ \E o \in StartOutcomes(c_impl) :
        IF o = "written"
        THEN /\ files' = files \cup {TempFile(c_impl, "docx", calls)}
             /\ c_pc' = "convert"
             /\ outcome' = "none"
        ELSE /\ files' = files
             /\ c_pc' = "exited"
             /\ outcome' = o
    /\ UNCHANGED <<scope, c_impl, calls, render_vars, http_vars, race_vars, fn_vars, pv_vars>>

\* subprocess.run(libreoffice ...) / docx2pdf.convert(...); a failing
\* converter may leave a partial PDF behind
ConvRun ==
    /\ c_pc = "convert"
    /\ \E o \in RunOutcomes(c_impl) :
        \E partial \in (IF o \in {"nonzero", "timeout"} THEN BOOLEAN ELSE {FALSE}) :
            /\ outcome' = o
            /\ files' = IF o = "ok" \/ partial
                        THEN files \cup {TempFile(c_impl, "pdf", calls)}
                        ELSE files
    /\ c_pc' = "cleanup"
    /\ UNCHANGED <<scope, c_impl, calls, render_vars, http_vars, race_vars, fn_vars, pv_vars>>

\* The files a call removes before it exits
Removed(ci, o, fs, call) ==
    LET both == {TempFile(ci, "docx", call), TempFile(ci, "pdf", call)} IN
    IF ci = "convert_docx_pdf"
    THEN \* cleanup only after the PDF was read; sys.exit(1) everywhere else
         IF o \in {"ok", "nooutput"} /\ TempFile(ci, "pdf", call) \in fs THEN both ELSE {}
    ELSE \* finally: / except: unlink both
         both

ConvExit ==
    /\ c_pc = "cleanup"
    /\ files' = files \ Removed(c_impl, outcome, files, calls)
    /\ c_pc' = "exited"
    /\ UNCHANGED <<scope, c_impl, outcome, calls, render_vars, http_vars, race_vars, fn_vars, pv_vars>>

\* The next conversion call of the same process or host
ConvAgain ==
    /\ c_pc = "exited"
    /\ calls < MaxCalls
    /\ calls' = calls + 1
    /\ c_pc' = "start"
    /\ outcome' = "none"
    /\ UNCHANGED <<scope, c_impl, files, render_vars, http_vars, race_vars, fn_vars, pv_vars>>

NextConv ==
    \/ ConvStart
    \/ ConvRun
    \/ ConvExit
    \/ ConvAgain

SpecConv == InitConv /\ [][NextConv]_vars

----------------------------------------------------------------------------
(* Concurrent runs of server/convert-docx-pdf.py.  The script is started   *)
(* once per conversion; every run works in /tmp/docx_convert on the paths  *)
(* input.docx and input.pdf.  The DOCX of run p is identified by p; a file *)
(* holds 0 when it does not exist, and otherwise the run whose DOCX it     *)
(* holds (input.docx) or was converted from (input.pdf).                   *)

InitRace ==
    /\ scope = "race"
    /\ FnIdle
    /\ PvIdle
    /\ RenderIdle
    /\ HttpIdle
    /\ ConvIdle
    /\ cv_pc = [p \in Procs |-> "start"]
    /\ input_file = 0
    /\ output_file = 0
    /\ loaded = [p \in Procs |-> 0]
    /\ pdf_data = [p \in Procs |-> 0]
    /\ exit_code = [p \in Procs |-> "running"]

\* sys.exit(1), directly or through "except Exception"
Exit1(p) ==
    /\ cv_pc' = [cv_pc EXCEPT ![p] = "exited"]
    /\ exit_code' = [exit_code EXCEPT ![p] = "1"]

\* docx_data = sys.stdin.buffer.read(); open(input_file, 'wb').write(docx_data)
WriteInput(p) ==
    /\ cv_pc[p] = "start"
    /\ \E empty \in BOOLEAN :
        IF empty
        THEN Exit1(p) /\ UNCHANGED input_file
        ELSE /\ input_file' = p
             /\ cv_pc' = [cv_pc EXCEPT ![p] = "load"]
             /\ UNCHANGED exit_code
    /\ UNCHANGED <<scope, output_file, loaded, pdf_data, render_vars, http_vars, conv_vars, fn_vars, pv_vars>>

\* subprocess.run(libreoffice ...), first half: LibreOffice opens input.docx
LoadInput(p) ==
    /\ cv_pc[p] = "load"
    /\ loaded' = [loaded EXCEPT ![p] = input_file]
    /\ cv_pc' = [cv_pc EXCEPT ![p] = "convert"]
    /\ UNCHANGED <<scope, input_file, output_file, pdf_data, exit_code,
                   render_vars, http_vars, conv_vars, fn_vars, pv_vars>>

\* subprocess.run(libreoffice ...), second half: LibreOffice writes input.pdf
\* ("ok"), ends with a non-zero return code, ends well without a PDF, or the
\* call raises TimeoutExpired
Convert(p) ==
    /\ cv_pc[p] = "convert"
    /\ \E o \in {"ok", "nonzero", "nooutput", "timeout"} :
        /\ o = "ok" => loaded[p] # 0
        /\ CASE o = "ok" ->
                    /\ output_file' = loaded[p]
                    /\ cv_pc' = [cv_pc EXCEPT ![p] = "read"]
                    /\ UNCHANGED exit_code
             [] o = "nooutput" ->
                    /\ cv_pc' = [cv_pc EXCEPT ![p] = "read"]
                    /\ UNCHANGED <<output_file, exit_code>>
             [] OTHER -> Exit1(p) /\ UNCHANGED output_file
    /\ UNCHANGED <<scope, input_file, loaded, pdf_data, render_vars, http_vars, conv_vars, fn_vars, pv_vars>>

\* if output_file.exists(): pdf_data = f.read(); sys.stdout.buffer.write(pdf_data)
ReadOutput(p) ==
    /\ cv_pc[p] = "read"
    /\ IF output_file # 0
       THEN /\ pdf_data' = [pdf_data EXCEPT ![p] = output_file]
            /\ cv_pc' = [cv_pc EXCEPT ![p] = "unlink_input"]
            /\ UNCHANGED exit_code
       ELSE Exit1(p) /\ UNCHANGED pdf_data
    /\ UNCHANGED <<scope, input_file, output_file, loaded, render_vars, http_vars, conv_vars, fn_vars, pv_vars>>

\* input_file.unlink(): FileNotFoundError when the file is gone
UnlinkInput(p) ==
    /\ cv_pc[p] = "unlink_input"
    /\ IF input_file # 0
       THEN /\ input_file' = 0
            /\ cv_pc' = [cv_pc EXCEPT ![p] = "unlink_output"]
            /\ UNCHANGED exit_code
       ELSE Exit1(p) /\ UNCHANGED input_file
    /\ UNCHANGED <<scope, output_file, loaded, pdf_data, render_vars, http_vars, conv_vars, fn_vars, pv_vars>>

\* output_file.unlink(), then the script ends with status 0
UnlinkOutput(p) ==
    /\ cv_pc[p] = "unlink_output"
    /\ IF output_file # 0
       THEN /\ output_file' = 0
            /\ cv_pc' = [cv_pc EXCEPT ![p] = "exited"]
            /\ exit_code' = [exit_code EXCEPT ![p] = "0"]
       ELSE Exit1(p) /\ UNCHANGED output_file
    /\ UNCHANGED <<scope, input_file, loaded, pdf_data, render_vars, http_vars, conv_vars, fn_vars, pv_vars>>

NextRace ==
    \E p \in Procs :
        \/ WriteInput(p)
        \/ LoadInput(p)
        \/ Convert(p)
        \/ ReadOutput(p)
        \/ UnlinkInput(p)
        \/ UnlinkOutput(p)

SpecRace == InitRace /\ [][NextRace]_vars

----------------------------------------------------------------------------
(* Figure sizing: ieee_generator_fixed.add_section and                      *)
(* pdf-generator-fallback.generate_reportlab_pdf.  Lengths are in           *)
(* hundredths of an inch; an image is given by its native aspect ratio      *)
(* <<w, h>>.                                                                *)

\* IEEE_CONFIG['max_figure_height'] = Inches(4.0)
max_figure_height == 400

\* size_mapping.get(size, 'Medium') and IEEE_CONFIG['figure_sizes']
figure_width(size) ==
    CASE size = "very-small" -> 120
      [] size = "small" -> 180
      [] size = "large" -> 320
      [] OTHER -> 250

\* python-docx: the height of a picture added with a width only
picture_height(width, aspect) == (width * aspect[2]) \div aspect[1]

\* ieee_generator_fixed: run.add_picture(width=width), and a second
\* add_picture with width * scale_factor when the picture is too tall
fixed_picture(block) ==
    LET width == figure_width(block.size)
        height == picture_height(width, block.aspect)
    IN IF height > max_figure_height
       THEN [width |-> (width * max_figure_height) \div height,
             height |-> max_figure_height]
       ELSE [width |-> width, height |-> height]

\* pdf-generator-fallback: RLImage(image_buffer, width=4*inch, height=3*inch)
fallback_picture(block) == [width |-> 400, height |-> 300]

\* size: "" stands for a block without size
FigureBlocks ==
    { [size |-> sz, aspect |-> a] :
        sz \in {"", "very-small", "small", "medium", "large"},
        a \in {<<1, 1>>, <<2, 1>>, <<4, 3>>, <<1, 2>>, <<1, 3>>, <<1, 4>>} }

InitSize ==
    /\ scope = "size"
    /\ RenderIdle
    /\ HttpIdle
    /\ ConvIdle
    /\ RaceIdle
    /\ PvIdle
    /\ fn \in {"fixed", "fallback"}
    /\ arg \in FigureBlocks
    /\ result = <<>>

PlaceFigure ==
    /\ scope = "size"
    /\ result = <<>>
    /\ result' = <<IF fn = "fixed" THEN fixed_picture(arg) ELSE fallback_picture(arg)>>
    /\ UNCHANGED <<scope, fn, arg, render_vars, http_vars, conv_vars, race_vars, pv_vars>>

SpecSize == InitSize /\ [][PlaceFigure]_vars

----------------------------------------------------------------------------
(* Properties of the rendered document *)

Rendered == 1..Len(form_data.sections)

UnitsOf(s, kind) == SelectSeq(doc, LAMBDA u : u.sec = s /\ u.kind = kind)

CaptionNums(s) == [j \in 1..Len(UnitsOf(s, "caption")) |-> UnitsOf(s, "caption")[j].num]

Has(s, i, kind) == \E k \in 1..Len(doc) : doc[k].sec = s /\ doc[k].blk = i /\ doc[k].kind = kind

ImageBearing(block) == block.data # "" /\ block.caption # ""

Decodable(block) == B64DecodeOk(StripPrefix(block.data)) /\ ImageOk(StripPrefix(block.data))

ImageBearingCount(blocks) == Cardinality({j \in 1..Len(blocks) : ImageBearing(blocks[j])})

AllDecodable(blocks) == \A j \in 1..Len(blocks) : ImageBearing(blocks[j]) => Decodable(blocks[j])

\* C1: in ieee_generator_fixed and generate-pdf, a section with index idx whose
\* content blocks hold k image-bearing blocks (image blocks and text blocks with
\* attached image data, in any mix and order) gets the captions Fig. idx.1,
\* ..., Fig. idx.k in order.
C1_FigureNumbering ==
    impl \in {"fixed", "genpdf"} =>
        \A s \in Rendered :
            LET blocks == form_data.sections[s].contentBlocks IN
            AllDecodable(blocks) =>
                CaptionNums(s) = [j \in 1..ImageBearingCount(blocks) |-> j]

\* C2: in ieee_pdf_generator and pdf_generator_identical the figure counter
\* restarts with every section: the first figure of each section is numbered 1,
\* whatever the earlier sections held.
C2_CounterResetPerSection ==
    impl \in {"ieeepdf", "identical"} =>
        \A s \in Rendered :
            (AllDecodable(form_data.sections[s].contentBlocks) /\ CaptionNums(s) # <<>>)
                => CaptionNums(s)[1] = 1

\* C3: in ieee_generator_fixed and document_generator an image block whose data
\* cannot be decoded never ends the generation: no exception leaves the section
\* routine.
C3_MalformedImageNeverAborts ==
    (/\ impl \in {"fixed", "docgen"}
     /\ \E s \in Rendered : ~AllDecodable(form_data.sections[s].contentBlocks))
        => pc # "failed"

\* C4: in ieee_generator_fixed, document_generator and ieee_document_generator a
\* section without content blocks and with a non-empty content field is rendered
\* as exactly one body paragraph whose text is the content.
C4_LegacyContentFallback ==
    impl \in {"fixed", "docgen", "ieeedoc"} =>
        \A s \in Rendered :
            LET sd == form_data.sections[s] IN
            (sd.contentBlocks = <<>> /\ sd.content_blocks = <<>> /\ sd.content # "")
                => [j \in 1..Len(UnitsOf(s, "para")) |-> UnitsOf(s, "para")[j].text]
                       = <<sd.content>>

LegacyPara(s) == \E k \in 1..Len(doc) : doc[k].sec = s /\ doc[k].kind = "para" /\ doc[k].blk = 0

BlockUnit(s) == \E k \in 1..Len(doc) : doc[k].sec = s /\ doc[k].blk > 0

\* C5: a section with non-empty contentBlocks never gets the legacy content
\* paragraph, and no section is rendered from both representations.
C5_NeverBothRepresentations ==
    \A s \in Rendered :
        /\ form_data.sections[s].contentBlocks # <<>> => ~LegacyPara(s)
        /\ ~(LegacyPara(s) /\ BlockUnit(s))

C5_Witness ==
    /\ pc = "done"
    /\ impl \in {"fixed", "ieeepdf"}
    /\ \E s \in Rendered :
        /\ form_data.sections[s].contentBlocks # <<>>
        /\ form_data.sections[s].content # ""
        /\ Has(s, 1, "para")

OrderedKinds == {"title", "author", "heading", "para", "refheading", "ref"}

Proj(u) == <<u.kind, u.num, u.text>>

Emitted ==
    LET units == SelectSeq(doc, LAMBDA u : u.kind \in OrderedKinds)
    IN [j \in 1..Len(units) |-> Proj(units[j])]

ExpectedSection(s) ==
    LET sd == form_data.sections[s] IN
    <<<<"heading", s, Upper(sd.title)>>>>
    \o [j \in 1..Len(sd.contentBlocks) |-> <<"para", 0, sd.contentBlocks[j].content>>]

Expected ==
    <<<<"title", 0, form_data.title>>>>
    \o [k \in 1..Len(form_data.authors) |-> <<"author", k, form_data.authors[k].name>>]
    \o Flatten([s \in 1..Len(form_data.sections) |-> ExpectedSection(s)])
    \o <<<<"refheading", 0, "REFERENCES">>>>
    \o [k \in 1..Len(form_data.references) |-> <<"ref", k, form_data.references[k].text>>]

\* A request of the shape the claim describes: title, named authors, titled
\* sections of text blocks, references with text
PlainRequest ==
    /\ form_data.title # ""
    /\ form_data.authors # <<>>
    /\ \A k \in 1..Len(form_data.authors) : form_data.authors[k].name # ""
    /\ form_data.sections # <<>>
    /\ \A s \in Rendered :
        LET sd == form_data.sections[s] IN
        /\ sd.title # "" /\ sd.content = "" /\ sd.contentBlocks # <<>>
        /\ \A j \in 1..Len(sd.contentBlocks) :
            /\ sd.contentBlocks[j].type = "text"
            /\ sd.contentBlocks[j].content # ""
            /\ sd.contentBlocks[j].data = ""
    /\ form_data.references # <<>>
    /\ \A k \in 1..Len(form_data.references) : form_data.references[k].text # ""

\* C6: ieee_generator_fixed and generate-pdf emit, in this order: the title, the
\* author names, per section the heading "<i>. <TITLE IN UPPER CASE>" and its
\* blocks in input order, the heading REFERENCES, and the entries "[n] <text>".
C6_EmissionOrder ==
    (impl \in {"fixed", "genpdf"} /\ pc = "done" /\ PlainRequest) => Emitted = Expected

\* C7: generate-pdf and pdf-generator-fallback render subsections down to
\* nesting level 5 and nothing deeper: of a chain of nested subsections the
\* levels 1..5 are rendered and the rest is skipped.
C7_DepthCap ==
    /\ \A k \in 1..Len(doc) : doc[k].level <= 5
    /\ (impl \in {"genpdf", "fallback"} /\ pc \in {"sections", "save", "done"}) =>
        \A s \in Rendered :
            \A n \in 0..MaxChain :
                form_data.sections[s].subsections = Chain(n) =>
                    {doc[k].level : k \in {m \in 1..Len(doc) : doc[m].sec = s /\ doc[m].kind = "subheading"}}
                        = 1..(IF n < 5 THEN n ELSE 5)

C7_Witness ==
    /\ pc = "done"
    /\ impl \in {"genpdf", "fallback"}
    /\ \E s \in Rendered :
        /\ Len(form_data.sections[s].subsections) >= 7
        /\ form_data.sections[s].subsections = Chain(Len(form_data.sections[s].subsections))
        /\ \E k \in 1..Len(doc) : doc[k].sec = s /\ doc[k].level = 5

Undecodable(block) == block.data # "" /\ block.caption # "" /\ ~Decodable(block)

----------------------------------------------------------------------------
(* Properties of the handlers and of the conversion calls *)

MissingRequired(r) == r.title = "" \/ ~any_named(r.authors)

\* C8: a request that lacks a required field (no title, no authors or no named
\* author) is answered by generate-pdf and docx-to-pdf with a client error
\* (status 4xx and an error body), and the document generator is never started.
C8_InputShapeErrors ==
    (/\ h_impl \in {"docx_to_pdf", "generate_pdf"}
     /\ req.kind = "json"
     /\ MissingRequired(req))
        => /\ ~rendering
           /\ h_pc \in {"done", "crashed"} =>
                /\ status_lines # <<>>
                /\ Head(status_lines) \in 400..499
                /\ body = "error"

\* C9: every temporary file a conversion call creates is gone when the call
\* exits, whether the converter succeeds, fails (non-zero return code, no
\* output file, timeout) or raises.
C9_TempFilesDeleted == c_pc = "exited" => files = {}

----------------------------------------------------------------------------
(* Figure numbers of the figures that are emitted *)

OnlyImageBlocks(blocks) == \A j \in 1..Len(blocks) : blocks[j].type = "image"

\* C11: in ieee_generator_fixed and ieee_pdf_generator a block that emits no
\* figure consumes no number: the captions that appear in a section are
\* numbered 1, 2, 3, ... without gaps or repeats.  (Stated for the first
\* section and for sections of image blocks only.)
C11_CounterAdvancesPerEmittedFigure ==
    impl \in {"fixed", "ieeepdf"} =>
        \A s \in Rendered :
            (s = 1 /\ OnlyImageBlocks(form_data.sections[s].contentBlocks))
                => CaptionNums(s) = [j \in 1..Len(CaptionNums(s)) |-> j]


Phase1Kinds == {"title", "author", "author_table", "author_detail", "author_line", "abstract", "keywords"}

BreakPositions == {k \in 1..Len(doc) : doc[k].kind = "column_break"}

\* C12: in the three DOCX generators that insert a continuous section break,
\* the title, the authors, the abstract and the keywords are emitted before
\* the break and every section and reference after it: the document never
\* holds two breaks, never holds a title, author, abstract or keywords unit
\* after a break, never holds any other unit before the first break, and a
\* finished document holds exactly one break.
C12_TwoPhaseLayout ==
    impl \in {"fixed", "genpdf", "ieeedoc"} =>
        /\ Cardinality(BreakPositions) <= 1
        /\ pc = "done" => Cardinality(BreakPositions) = 1
        /\ \A b \in BreakPositions : \A k \in 1..Len(doc) :
            /\ (k > b => doc[k].kind \notin Phase1Kinds)
            /\ (k < b => doc[k].kind \in Phase1Kinds \cup {"empty"})


NumberedKinds == {"heading", "subheading", "caption", "ref"}

\* The numbers a backend prints: section numbers, subsection numbers,
\* figure labels and reference numbers, in the order of emission
Numbering(units) ==
    LET numbered == SelectSeq(units, LAMBDA u : u.kind \in NumberedKinds)
    IN [j \in 1..Len(numbered) |->
            <<numbered[j].kind, numbered[j].sec, numbered[j].num, numbered[j].path>>]

\* figure_counter of create_ieee_pdf when it reaches section s of the request
RECURSIVE FigureCounterBefore(_)
FigureCounterBefore(s) ==
    IF s = 1 THEN 0
    ELSE LET blocks == form_data.sections[s - 1].contentBlocks
         IN ieeepdf_fc(blocks, Len(blocks), FigureCounterBefore(s - 1))

\* C13: for the request that ieee_generator_fixed has rendered, the section
\* numbers, subsection numbers, figure labels and reference numbers of the
\* DOCX output are those that ieee_pdf_generator and pdf_generator_identical
\* print for the same request.
C13_BackendsAgreeOnNumbering ==
    impl = "fixed" =>
        /\ \A s \in Rendered :
            LET sd == form_data.sections[s]
                docx == Numbering(SelectSeq(doc, LAMBDA u : u.sec = s))
            IN /\ docx = Numbering(add_section("identical", sd, s, 0).units)
               /\ docx = Numbering(add_section("ieeepdf", sd, s, FigureCounterBefore(s)).units)
        /\ pc = "done" =>
            LET docx == Numbering(SelectSeq(doc, LAMBDA u : u.kind = "ref"))
            IN /\ docx = Numbering(add_references("identical", form_data.references))
               /\ docx = Numbering(add_references("ieeepdf", form_data.references))


\* A list of subsections that is a tree: ids are the positions, a parent
\* precedes its children and level is the depth in the tree
WellFormedTree(subs) ==
    \A p \in 1..Len(subs) :
        /\ subs[p].id = p
        /\ subs[p].parentId < p
        /\ subs[p].level = IF subs[p].parentId = 0 THEN 1
                           ELSE subs[subs[p].parentId].level + 1

\* Position of entry p among the entries of subs with the same parentId
SiblingRank(subs, p) ==
    Cardinality({q \in 1..p : subs[q].parentId = subs[p].parentId})

\* The number the parentId tree gives entry p of a well-formed list
RECURSIVE TreePath(_, _, _)
TreePath(subs, p, s) ==
    IF subs[p].parentId = 0 THEN <<s, SiblingRank(subs, p)>>
    ELSE Append(TreePath(subs, subs[p].parentId, s), SiblingRank(subs, p))

SubheadingPaths(s) ==
    {<<doc[k].path, doc[k].text>> :
        k \in {m \in 1..Len(doc) : doc[m].sec = s /\ doc[m].kind = "subheading"}}

\* C14: in generate-pdf and ieee_generator_fixed the headings of the
\* subsections of a section carry the numbers of the parentId tree: s.n for
\* the n-th subsection without parent, P.m for the m-th child of the
\* subsection numbered P, for every titled subsection down to level 5.
C14_NumberingFollowsTree ==
    (impl \in {"genpdf", "fixed"} /\ pc \in {"sections", "save", "done"}) =>
        \A s \in Rendered :
            LET subs == form_data.sections[s].subsections IN
            WellFormedTree(subs) =>
                SubheadingPaths(s) =
                    {<<TreePath(subs, p, s), subs[p].title>> :
                        p \in {q \in 1..Len(subs) :
                                subs[q].title # "" /\ subs[q].level <= NestLimit}}


NamedAuthors == SelectSeq(form_data.authors, LAMBDA a : a.name # "")

AuthorTables == SelectSeq(doc, LAMBDA u : u.kind = "author_table")

AuthorCells == SelectSeq(doc, LAMBDA u : u.kind = "author")

\* C15: in ieee_generator_fixed and pdf_generator_identical the authors table
\* has one column per author with a name, in the order of the request: its
\* number of columns is the number of named authors, the k-th named author is
\* written in column k, and without a named author there is no column.
C15_OneColumnPerNamedAuthor ==
    (impl \in {"fixed", "identical"} /\ pc \notin {"title", "authors"}) =>
        /\ \A t \in 1..Len(AuthorTables) : AuthorTables[t].num = Len(NamedAuthors)
        /\ Len(AuthorTables) = (IF NamedAuthors = <<>> THEN 0 ELSE 1)
        /\ Len(AuthorCells) = Len(NamedAuthors)
        /\ \A k \in 1..Len(AuthorCells) :
            AuthorCells[k].num = k /\ AuthorCells[k].text = NamedAuthors[k].name


RefUnits == SelectSeq(doc, LAMBDA u : u.kind = "ref")

\* C16: in generate-pdf, ieee_generator_fixed and ieee_document_generator a
\* finished document holds one paragraph per reference of the request, in
\* the order of the request, the k-th being "[k] " followed by the value of
\* the text field of the k-th reference.
C16_ReferencesNumberedInOrder ==
    (impl \in {"genpdf", "fixed", "ieeedoc"} /\ pc = "done") =>
        /\ Len(RefUnits) = Len(form_data.references)
        /\ \A k \in 1..Len(RefUnits) :
            RefUnits[k].num = k /\ RefUnits[k].text = form_data.references[k].text


----------------------------------------------------------------------------
(* Properties of concurrent conversions *)

\* C17: concurrent runs of convert-docx-pdf.py do not touch each other's
\* files: the PDF a run writes to stdout was converted from its own DOCX,
\* LibreOffice opens the DOCX the run has written, and the files a run is
\* about to delete are still there.
C17_ConversionsIsolated ==
    \A p \in DOMAIN cv_pc :
        /\ pdf_data[p] \in {0, p}
        /\ loaded[p] \in {0, p}
        /\ cv_pc[p] = "load" => input_file = p
        /\ cv_pc[p] = "unlink_input" => input_file # 0
        /\ cv_pc[p] = "unlink_output" => output_file # 0


----------------------------------------------------------------------------
(* Properties of the conversion block of pdf-preview.py *)

\* C18: when docx2pdf fails in pdf-preview.py (it raises, or it leaves no
\* PDF), the handler answers 200 with the DOCX it has generated, and it has
\* called the converter once for the request; no request sees more than one
\* call of the converter.
C18_FallbackWithoutRetry ==
    /\ calls <= 1
    /\ (h_impl = "pdf_preview" /\ h_pc = "done" /\ outcome \in {"nooutput", "timeout"}) =>
        /\ body = "docx"
        /\ status_lines = <<200>>
        /\ calls = 1

C18_Witness ==
    /\ h_impl = "pdf_preview"
    /\ h_pc = "done"
    /\ outcome = "timeout"
    /\ body = "docx"
    /\ calls = 1


----------------------------------------------------------------------------
(* Properties of requests with absent optional fields *)

\* C19: in generate-pdf, ieee_document_generator and pdf-generator-fallback
\* no request whose optional fields are absent (a block without type, a
\* subsection without id, level or parentId, a reference without text, no
\* abstract, keywords or references) makes the generation fail.
C19_AbsentOptionalFieldsTolerated ==
    impl \in {"genpdf", "ieeedoc", "fallback"} => pc # "failed"


----------------------------------------------------------------------------
(* Properties of the conversion endpoint *)

\* C20: a request to api/convert-docx-pdf.py whose docx_data is valid base64
\* is answered with status 200 and a PDF, as JSON in preview mode and as the
\* body otherwise, and the PDF bytes start with %PDF-.
C20_ConversionAnswersPdf ==
    (/\ h_impl = "convert_docx_pdf"
     /\ req.kind = "json"
     /\ req.docx_data = "valid"
     /\ h_pc \in {"done", "crashed"})
        => /\ status_lines = <<200>>
           /\ body = (IF req.preview THEN "success_json" ELSE "pdf")
           /\ pdf_bytes.magic = "%PDF-"


----------------------------------------------------------------------------
(* Properties of the answers to malformed requests *)

\* C21: generate-pdf and the conversion endpoint answer a body that is no
\* JSON with status 400 and an error body, and they start neither the
\* document generator nor the converter.
C21_InvalidJsonAnswered400 ==
    (/\ h_impl \in {"generate_pdf", "convert_docx_pdf"}
     /\ req.kind \in {"invalid", "empty"})
        => /\ ~rendering
           /\ calls = 0
           /\ h_pc \in {"done", "crashed"} =>
                (status_lines = <<400>> /\ body = "error")


----------------------------------------------------------------------------
(* Properties of the figure sizes *)

\* The width and height of the native image stand in the same ratio as those
\* of the emitted picture, up to the rounding of one length unit
SameAspect(pic, aspect) ==
    LET d == pic.width * aspect[2] - pic.height * aspect[1]
    IN d < aspect[1] + aspect[2] /\ -d < aspect[1] + aspect[2]

\* C22: ieee_generator_fixed and pdf-generator-fallback emit a figure at the
\* width of its size name (1.2, 1.8, 2.5, 3.2 in), unless its height at that
\* width exceeds 4.0 in: then both lengths are scaled by one factor.  The
\* aspect ratio of the image is kept and no figure is taller than 4.0 in.
C22_FigureSizing ==
    result # <<>> =>
        /\ result[1].height <= max_figure_height
        /\ SameAspect(result[1], arg.aspect)
        /\ \/ result[1].width = figure_width(arg.size)
           \/ /\ result[1].height = max_figure_height
              /\ result[1].width < figure_width(arg.size)


----------------------------------------------------------------------------
(* A second call of the generator with the same form_data                   *)

\* A counter that outlives the call
carried_figure_counter(carried) == carried

\* A call keeps nothing of the previous one: Document() / story = [] and
\* figure_counter = 0 are created inside the call
fresh_figure_counter(carried) == 0

RECURSIVE section_loop(_, _, _, _)
section_loop(im, sections, idx, fc) ==
    IF idx > Len(sections) THEN R(<<>>, FALSE)
    ELSE Then(add_section(im, sections[idx], idx, fc),
              section_loop(im, sections, idx + 1,
                  IF im = "ieeepdf"
                  THEN ieeepdf_fc(sections[idx].contentBlocks,
                                  Len(sections[idx].contentBlocks), fc)
                  ELSE fc))

RECURSIVE generate_from(_, _, _, _)
generate_from(im, p, data, fc) ==
    CASE p = "title" -> add_title(im, data.title) \o generate_from(im, NextPc(im, p), data, fc)
      [] p = "authors" -> add_authors(im, data.authors) \o generate_from(im, NextPc(im, p), data, fc)
      [] p = "abstract" -> add_abstract(im, data.abstract) \o generate_from(im, NextPc(im, p), data, fc)
      [] p = "keywords" -> add_keywords(im, data.keywords) \o generate_from(im, NextPc(im, p), data, fc)
      [] p = "break" -> <<U("column_break", 0, 0, 0, "", 0)>> \o generate_from(im, NextPc(im, p), data, fc)
      [] p = "sections" ->
            LET r == section_loop(im, data.sections, 1, fc)
            IN IF r.raised THEN r.units
               ELSE r.units \o add_references(im, data.references)
      [] OTHER -> <<>>

\* generate_ieee_document(form_data) / create_ieee_pdf(form_data), called
\* again in the same process with the request already served
GenerateAgain ==
    /\ pc = "done"
    /\ result = <<>>
    /\ result' = <<generate_from(impl, "title", form_data,
                                 fresh_figure_counter(figure_counter))>>
    /\ UNCHANGED <<scope, fn, arg, render_vars, http_vars, conv_vars, race_vars, pv_vars>>

NextTwice ==
    \/ NextRender
    \/ GenerateAgain

SpecTwice == InitImg /\ [][NextTwice]_vars

----------------------------------------------------------------------------
(* The calls of the recursive subsection walks                              *)

\* The levels at which generate-pdf.add_nested_subsection is entered, in
\* call order, below one parent
RECURSIVE nested_calls(_, _, _)
nested_calls(all_subsections, parent_id, level) ==
    LET child_subsections ==
            SelectSeq(all_subsections,
                      LAMBDA s : s.parentId = parent_id /\ Lvl(s) = level)
        one(k) ==
            LET child_sub == child_subsections[k] IN
            IF genpdf_descend(level)
            THEN IF child_sub.id = 0 THEN R(<<>>, TRUE)
                 ELSE nested_calls(all_subsections, child_sub.id, level + 1)
            ELSE R(<<>>, FALSE)
    IN Then(R(<<level>>, FALSE), ThenAll([k \in 1..Len(child_subsections) |-> one(k)]))

\* add_subsection_recursive (entered once, level 1) and every
\* add_nested_subsection call it leads to
genpdf_calls(subsections) ==
    LET level_1_subsections ==
            SelectSeq(subsections, LAMBDA s : Lvl(s) = 1 /\ s.parentId = 0)
        one(k) ==
            IF level_1_subsections[k].id = 0 THEN R(<<>>, TRUE)
            ELSE nested_calls(subsections, level_1_subsections[k].id, 2)
    IN Then(R(<<1>>, FALSE), ThenAll([k \in 1..Len(level_1_subsections) |-> one(k)]))

\* The levels at which pdf-generator-fallback.add_subsections_recursive is
\* entered; bound says whether subsection_number has been assigned in the
\* running call
RECURSIVE fallback_calls_loop(_, _, _, _, _)
RECURSIVE fallback_calls(_, _, _)
fallback_calls(subsections, parent, level) ==
    LET current_level_subs ==
            IF level = 1
            THEN SelectSeq(subsections, LAMBDA s : Lvl(s) = 1 /\ s.parentId = 0)
            ELSE SelectSeq(subsections, LAMBDA s : s.parentId = parent /\ Lvl(s) = level)
    IN Then(R(<<level>>, FALSE),
            fallback_calls_loop(subsections, level, current_level_subs, 1, FALSE))

fallback_calls_loop(subsections, level, subs, j, bound) ==
    IF j > Len(subs) THEN R(<<>>, FALSE)
    ELSE
    LET subsection == subs[j]
        bound_now == bound \/ subsection.title # ""
        has_children ==
            \E k \in 1..Len(subsections) :
                subsections[k].parentId # 0 /\ subsections[k].parentId = subsection.id
        below ==
            IF subsection.id = 0 THEN R(<<>>, TRUE)
            ELSE IF has_children /\ fallback_descend(level)
            THEN IF ~bound_now THEN R(<<>>, TRUE)
                 ELSE fallback_calls(subsections, last_segment(subsection.id), level + 1)
            ELSE R(<<>>, FALSE)
    IN Then(below, fallback_calls_loop(subsections, level, subs, j + 1, bound_now))

\* The calls one section's subsections cause in the generator
walk_calls(im, subsections) ==
    CASE im = "genpdf" -> genpdf_calls(subsections).units
      [] im = "fallback" ->
            IF subsections # <<>> THEN fallback_calls(subsections, 0, 1).units ELSE <<>>
      [] OTHER -> <<>>

\* 1 + n + n^2 + n^3 + n^4: one call at level 1 and, at each level below,
\* at most n calls per call of the level above
CallBound(n) == 1 + n + n * n + n * n * n + n * n * n * n

\* C24: the recursive subsection walk of generate-pdf and
\* pdf-generator-fallback returns for every list of subsections - self
\* parents, parentId cycles, duplicate ids and dangling parentIds included:
\* it is never entered below level 5 and makes at most 1+n+n^2+n^3+n^4
\* calls for n subsections.
C24_SubsectionWalkBounded ==
    \A s \in 1..Len(form_data.sections) :
        LET subsections == form_data.sections[s].subsections
            entered == walk_calls(impl, subsections)
        IN /\ Len(entered) <= CallBound(Len(subsections))
           /\ \A c \in 1..Len(entered) : entered[c] <= NestLimit

C24_Witness ==
    /\ pc = "done"
    /\ impl = "genpdf"
    /\ \E s \in 1..Len(form_data.sections) :
        LET subsections == form_data.sections[s].subsections
            entered == walk_calls(impl, subsections)
        IN /\ Len(subsections) >= 7
           /\ \E k \in 1..Len(subsections) : subsections[k].parentId = subsections[k].id
           /\ \E c \in 1..Len(entered) : entered[c] = NestLimit
           /\ \E k \in 1..Len(doc) : doc[k].level = NestLimit


\* C25: a request is answered with exactly one status line; a handler never
\* writes a second status line (400 or 500) after the 200 it has already
\* sent.
C25_OneStatusLine ==
    /\ Len(status_lines) <= 1
    /\ h_pc = "done" => Len(status_lines) = 1

\* C26: a body that reports an error is never sent under status 200; 200 is
\* the status of an answer that carries a document or a preview.
C26_NoErrorUnder200 ==
    h_pc = "done" =>
        /\ body = "error" => status_lines[1] # 200
        /\ status_lines[1] = 200 => body \in {"docx", "pdf", "success_json"}


----------------------------------------------------------------------------
(* The preview handler: api/generate/preview-images.py                      *)

backend_urls == <<"format-a-python-backend", "format-a-python">>

\* A retry configuration with one retry more
four_retries == 3 + 1

max_retries == 3

\* What one urlopen of the proxy can meet: status 200 with a JSON body that
\* is truthy, that is falsy ({}), or with a body that is no JSON; another 2xx
\* status; HTTPError 500/502/503/504; another HTTPError; URLError; an
\* exception whose text names a timeout or the network; any other exception
BackendOutcomes ==
    {"json200", "empty200", "bad200", "status2xx", "http5xx", "http4xx",
     "urlerror", "timeout", "other"}

\* The except clauses that end in "continue"
retried(o, attempt) == o \in {"http5xx", "urlerror", "timeout"} /\ attempt < max_retries

None == [request |-> 0, truthy |-> FALSE]

Stages == <<"proxy", "local", "basic">>

StageRank(st) == CHOOSE k \in 1..Len(Stages) : Stages[k] = st

\* Variant of after_answer without the return that follows the answer
fall_through(st) ==
    CASE st = "proxy" -> "local"
      [] st = "local" -> "basic"
      [] OTHER -> "done"

\* Where do_POST goes once a stage has written its answer: it returns
after_answer(st) == "done"

PreviewRequests ==
    { [kind |-> "json", title |-> t, authors |-> <<>>, preview |-> TRUE, authors_ok |-> ok] :
          t \in {"", "T"}, ok \in BOOLEAN }
    \cup { [kind |-> k, title |-> "", authors |-> <<>>, preview |-> TRUE, authors_ok |-> TRUE] :
          k \in {"invalid", "empty"} }

InitPreview ==
    /\ scope = "preview"
    /\ RenderIdle
    /\ ConvIdle
    /\ RaceIdle
    /\ FnIdle
    /\ h_impl = "preview_images"
    /\ has_utils = TRUE
    /\ h_pc = "recv"
    /\ req = NoRequest
    /\ status_lines = <<>>
    /\ body = "none"
    /\ rendering = FALSE
    /\ pdf_bytes = NoBytes
    /\ proxy = NoProxy
    /\ chain \in { [NoChain EXCEPT !.generator = g] : g \in BOOLEAN }

\* The handler moves to nxt; entering a stage is recorded, res is the result
\* of the stage it leaves ("" when it leaves none) and b the body it writes
\* ("" when it writes none)
Move(nxt, res, b) ==
    /\ h_pc' = nxt
    /\ body' = IF b = "" THEN body ELSE b
    /\ chain' = [chain EXCEPT
            !.stages = IF \E k \in 1..Len(Stages) : Stages[k] = nxt THEN Append(@, nxt) ELSE @,
            !.results = IF res = "" THEN @ ELSE Append(@, res),
            !.written = IF b = "" THEN @ ELSE Append(@, b)]

\* send_response(200) and the CORS headers, before the body is read
PreviewReceive ==
    /\ h_pc = "recv"
    /\ \E r \in PreviewRequests : req' = r
    /\ status_lines' = <<200>>
    /\ h_pc' = "parse"
    /\ UNCHANGED <<scope, h_impl, body, rendering, has_utils, pdf_bytes, render_vars,
                   conv_vars, race_vars, fn_vars, pv_vars>>

\* Content-Length, json.loads and the title check
PreviewParse ==
    /\ h_pc = "parse"
    /\ CASE req.kind = "empty" ->
                Move("done", "", "error") /\ UNCHANGED <<status_lines, proxy>>
         [] req.kind = "invalid" ->
                /\ Move("done", "", "error")
                /\ status_lines' = Append(status_lines, 400)
                /\ UNCHANGED proxy
         [] req.title = "" ->
                Move("done", "", "error") /\ UNCHANGED <<status_lines, proxy>>
         [] OTHER ->
                /\ Move("proxy", "", "")
                /\ proxy' = [NoProxy EXCEPT !.url = 1]
                /\ UNCHANGED status_lines
    /\ UNCHANGED <<scope, h_impl, req, rendering, has_utils, pdf_bytes, render_vars,
                   conv_vars, race_vars, fn_vars>>

\* One pass of "for attempt in range(max_retries + 1)": one urlopen and what
\* follows it - return, continue, or break to the next URL; after the last
\* URL the function returns None
ProxyRequest ==
    /\ h_pc = "proxy"
    /\ proxy.python_response = <<>>
    /\ proxy.url \in 1..Len(backend_urls)
    /\ \E o \in BackendOutcomes :
        LET n == proxy.per_url[1] + proxy.per_url[2] + 1
            sent == [proxy EXCEPT
                        !.per_url[proxy.url] = @ + 1,
                        !.first_200 = IF @ = 0 /\ o \in {"json200", "empty200", "bad200"}
                                      THEN n ELSE @,
                        !.first_json = IF @ = 0 /\ o \in {"json200", "empty200"}
                                       THEN n ELSE @]
        IN proxy' =
            IF o \in {"json200", "empty200"}
            THEN [sent EXCEPT !.python_response =
                        <<[request |-> n, truthy |-> (o = "json200")]>>]
            ELSE IF retried(o, proxy.attempt)
            THEN [sent EXCEPT !.attempt = @ + 1]
            ELSE IF proxy.url < Len(backend_urls)
            THEN [sent EXCEPT !.url = @ + 1, !.attempt = 0]
            ELSE [sent EXCEPT !.url = @ + 1, !.attempt = 0, !.python_response = <<None>>]
    /\ UNCHANGED <<scope, http_vars, chain, render_vars, conv_vars, race_vars, fn_vars>>

\* "if python_response:" - the answer of the backend is passed on, or the
\* handler goes on to the local generator ("is not None") or the basic preview
ProxyAnswer ==
    /\ h_pc = "proxy"
    /\ proxy.python_response # <<>>
    /\ IF proxy.python_response[1].truthy
       THEN Move(after_answer("proxy"), "ok", "backend_json")
       ELSE Move(IF chain.generator THEN "local" ELSE "basic", "failed", "")
    /\ UNCHANGED <<scope, h_impl, req, status_lines, rendering, has_utils, pdf_bytes,
                   proxy, render_vars, conv_vars, race_vars, fn_vars>>

\* generate_ieee_document(document_data) and _create_html_preview inside one
\* try; _create_html_preview raises on an author that is no object
LocalGenerator ==
    /\ h_pc = "local"
    /\ rendering' = TRUE
    /\ \E o \in {"ok", "raised"} :
        IF o = "ok" /\ req.authors_ok
        THEN Move(after_answer("local"), "ok", "html_local")
        ELSE Move("basic", "failed", "")
    /\ UNCHANGED <<scope, h_impl, req, status_lines, has_utils, pdf_bytes,
                   proxy, render_vars, conv_vars, race_vars, fn_vars>>

\* The final fallback; an exception of _create_html_preview reaches the
\* outer handler, which sends 500
BasicPreview ==
    /\ h_pc = "basic"
    /\ IF req.authors_ok
       THEN Move(after_answer("basic"), "ok", "html_basic") /\ UNCHANGED status_lines
       ELSE Move("done", "failed", "error") /\ status_lines' = Append(status_lines, 500)
    /\ UNCHANGED <<scope, h_impl, req, rendering, has_utils, pdf_bytes,
                   proxy, render_vars, conv_vars, race_vars, fn_vars>>

NextPreview ==
    \/ PreviewReceive
    \/ PreviewParse
    \/ ProxyRequest
    \/ ProxyAnswer
    \/ LocalGenerator
    \/ BasicPreview

SpecPreview == InitPreview /\ [][NextPreview]_vars

\* C28: a POST to preview-images with a JSON body that has a title goes
\* through the proxy, the local generator and the basic HTML preview in this
\* order; a stage is entered only when every stage before it has failed, no
\* stage follows one that succeeded, and exactly one JSON body is written.
C28_PreviewFallbackChain ==
    LET st == chain.stages
        rs == chain.results
    IN /\ (req.kind = "json" /\ req.title # "" /\ h_pc # "parse") => (st # <<>> /\ st[1] = "proxy")
       /\ \A i, j \in 1..Len(st) : i < j => StageRank(st[i]) < StageRank(st[j])
       /\ \A k \in 2..Len(st) : \A i \in 1..(k - 1) : i <= Len(rs) /\ rs[i] = "failed"
       /\ \A i \in 1..Len(rs) : rs[i] = "ok" => (i = Len(st) /\ h_pc = "done")
       /\ (h_pc = "done" /\ st # <<>>) =>
            /\ Len(chain.written) = 1
            /\ Len(rs) = Len(st)
            /\ rs[Len(rs)] = "failed" => st[Len(st)] = "basic"
            /\ (chain.generator /\ Len(st) > 1) => st[2] = "local"

C28_Witness ==
    /\ h_pc = "done"
    /\ chain.stages = <<"proxy", "local", "basic">>
    /\ chain.results = <<"failed", "failed", "ok">>
    /\ chain.written = <<"html_basic">>
    /\ proxy.per_url[1] > 1


\* The counters of the proxy: at most 4 requests per URL and 8 in all, the
\* second URL only after the first is given up, no status line written by
\* the proxy, and an unfinished call can always take its next step
ProxyBounded ==
    /\ \A u \in 1..Len(backend_urls) : proxy.per_url[u] <= 4
    /\ proxy.per_url[1] + proxy.per_url[2] <= 8
    /\ proxy.per_url[2] > 0 => proxy.url >= 2
    /\ h_pc = "proxy" => status_lines = <<200>>
    /\ (h_pc = "proxy" /\ proxy.python_response = <<>>) => ENABLED ProxyRequest

\* C29 as stated: _proxy_to_python_backend sends at most 4 requests per URL
\* and 8 in all, in list order, always returns, and what it returns is the
\* JSON of the first response with status 200, or None.
C29_BoundedProxyRetry ==
    /\ ProxyBounded
    /\ proxy.python_response # <<>> =>
            IF proxy.first_200 = 0
            THEN proxy.python_response[1] = None
            ELSE proxy.python_response[1].request = proxy.first_200

\* C29, amended: _proxy_to_python_backend sends at most 4 requests per URL
\* and 8 in all, in list order, always returns, and what it returns is the
\* JSON of the first response with status 200 whose body is JSON, or None
\* when no request was answered that way.
C29_ReturnsFirstJsonAnswer ==
    /\ ProxyBounded
    /\ proxy.python_response # <<>> =>
            IF proxy.first_json = 0
            THEN proxy.python_response[1] = None
            ELSE proxy.python_response[1].request = proxy.first_json

C29_Witness ==
    /\ proxy.per_url = <<4, 4>>
    /\ proxy.first_200 = 4
    /\ proxy.python_response = <<[request |-> 8, truthy |-> TRUE]>>


----------------------------------------------------------------------------
(* ieee_pdf_generator.fix_unclosed_tags on a string given as the sequence   *)
(* of the pieces its pattern can meet                                       *)

MaxTokens == 4        \* pieces per input string

\* Pieces of an input string: the tags the pattern knows, in either case and
\* with attributes, a run of text, and a "<" that starts no known tag
Pieces ==
    {"<b>", "</b>", "<B>", "<i class=x>", "</i>", "<u>", "</u>", "<br>", "</br>", "<br/>",
     "text", "<"}

\* One match of tag_pattern at a piece: groups 1 to 3, tag_name lower-cased;
\* "<" matches neither alternative and is passed over by finditer
TagMatch(piece) ==
    CASE piece = "<b>"   -> [is_closing |-> FALSE, tag_name |-> "b", text_content |-> ""]
      [] piece = "<B>"   -> [is_closing |-> FALSE, tag_name |-> "b", text_content |-> ""]
      [] piece = "</b>"  -> [is_closing |-> TRUE, tag_name |-> "b", text_content |-> ""]
      [] piece = "<i class=x>" -> [is_closing |-> FALSE, tag_name |-> "i", text_content |-> ""]
      [] piece = "</i>"  -> [is_closing |-> TRUE, tag_name |-> "i", text_content |-> ""]
      [] piece = "<u>"   -> [is_closing |-> FALSE, tag_name |-> "u", text_content |-> ""]
      [] piece = "</u>"  -> [is_closing |-> TRUE, tag_name |-> "u", text_content |-> ""]
      [] piece = "<br>"  -> [is_closing |-> FALSE, tag_name |-> "br", text_content |-> ""]
      [] piece = "</br>" -> [is_closing |-> TRUE, tag_name |-> "br", text_content |-> ""]
      [] piece = "<br/>" -> [is_closing |-> FALSE, tag_name |-> "br/", text_content |-> ""]
      [] piece = "text"  -> [is_closing |-> FALSE, tag_name |-> "", text_content |-> "text"]
      [] OTHER           -> [is_closing |-> FALSE, tag_name |-> "", text_content |-> ""]

\* Variant of closes_top that pops whatever tag is open
closes_any(open_tags, tag_name) == open_tags # <<>>

\* "if open_tags and open_tags[-1] == tag_name"
closes_top(open_tags, tag_name) ==
    open_tags # <<>> /\ open_tags[Len(open_tags)] = tag_name

\* "while open_tags: tag = open_tags.pop(); result += f'</{tag}>'"
RECURSIVE close_remaining(_)
close_remaining(open_tags) ==
    IF open_tags = <<>> THEN <<>>
    ELSE <<"</" \o open_tags[Len(open_tags)] \o ">">>
         \o close_remaining(SubSeq(open_tags, 1, Len(open_tags) - 1))

\* The loop over the matches, from piece k on
RECURSIVE fix_from(_, _, _)
fix_from(content, k, open_tags) ==
    IF k > Len(content) THEN close_remaining(open_tags)
    ELSE
    LET m == TagMatch(content[k]) IN
    IF m.text_content # "" THEN <<m.text_content>> \o fix_from(content, k + 1, open_tags)
    ELSE IF m.tag_name = "" THEN fix_from(content, k + 1, open_tags)
    ELSE IF m.tag_name = "br/" THEN <<"<br/>">> \o fix_from(content, k + 1, open_tags)
    ELSE IF m.is_closing THEN
        IF closes_top(open_tags, m.tag_name)
        THEN <<"</" \o m.tag_name \o ">">>
             \o fix_from(content, k + 1, SubSeq(open_tags, 1, Len(open_tags) - 1))
        ELSE fix_from(content, k + 1, open_tags)
    ELSE <<"<" \o m.tag_name \o ">">> \o fix_from(content, k + 1, Append(open_tags, m.tag_name))

fix_unclosed_tags(content) == fix_from(content, 1, <<>>)

InitTags ==
    /\ scope = "tags"
    /\ RenderIdle
    /\ HttpIdle
    /\ ConvIdle
    /\ RaceIdle
    /\ PvIdle
    /\ fn = "fix_unclosed_tags"
    /\ arg \in SeqUpTo(Pieces, MaxTokens)
    /\ result = <<>>

FixTags ==
    /\ scope = "tags"
    /\ result = <<>>
    /\ result' = <<fix_unclosed_tags(arg)>>
    /\ UNCHANGED <<scope, fn, arg, render_vars, http_vars, conv_vars, race_vars, pv_vars>>

SpecTags == InitTags /\ [][FixTags]_vars

FormatTags == {"b", "i", "u"}

\* Reading a string left to right with the list of the b/i/u tags that are
\* open: an opening tag is added, a closing tag must close the tag opened
\* last, and at the end nothing is open
RECURSIVE Nested(_, _, _)
Nested(out, k, opened) ==
    IF k > Len(out) THEN opened = <<>>
    ELSE IF \E t \in FormatTags : out[k] = "<" \o t \o ">"
    THEN Nested(out, k + 1, Append(opened, out[k]))
    ELSE IF \E t \in FormatTags : out[k] = "</" \o t \o ">"
    THEN /\ opened # <<>>
         /\ \E t \in FormatTags :
                out[k] = "</" \o t \o ">" /\ opened[Len(opened)] = "<" \o t \o ">"
         /\ Nested(out, k + 1, SubSeq(opened, 1, Len(opened) - 1))
    ELSE Nested(out, k + 1, opened)

\* C30: what fix_unclosed_tags returns is well-formed in its b, i and u
\* tags: every opening tag is closed, tags close in the reverse order of
\* their opening, and no closing tag stands without its opening tag.
C30_TagsBalanced ==
    result # <<>> =>
        /\ Nested(result[1], 1, <<>>)
        /\ \A k \in 1..Len(result[1]) : result[1][k] # "<"

C30_Witness ==
    /\ fn = "fix_unclosed_tags"
    /\ arg = <<"<b>", "<i class=x>", "</b>", "text">>
    /\ result = << <<"<b>", "<i>", "text", "</i>", "</b>">> >>


\* The entries of a subsection list that the nesting rule places at level:
\* at level 1 the entries without parentId, below it the entries whose
\* parentId is the id of an entry placed one level above
RECURSIVE Placed(_, _)
Placed(subsections, level) ==
    IF level = 1
    THEN {k \in 1..Len(subsections) : Lvl(subsections[k]) = 1 /\ subsections[k].parentId = 0}
    ELSE {k \in 1..Len(subsections) :
            /\ Lvl(subsections[k]) = level
            /\ \E j \in Placed(subsections, level - 1) :
                    subsections[j].id = subsections[k].parentId}

DistinctIds(subsections) ==
    \A j, k \in 1..Len(subsections) :
        /\ subsections[k].id # 0
        /\ j # k => subsections[j].id # subsections[k].id

UnitsAt(s, kind, level) ==
    {k \in 1..Len(doc) : doc[k].sec = s /\ doc[k].kind = kind /\ doc[k].level = level}

\* C27: in generate-pdf and pdf-generator-fallback, for subsections with
\* distinct ids of any spelling, every subsection whose parentId is the id of
\* a rendered subsection one level above (levels 2 to 5) is rendered exactly
\* once, under that parent, and no subsection is rendered twice.
C27_NestedCoverage ==
    (pc = "done" /\ impl \in {"genpdf", "fallback"}) =>
        \A s \in 1..Len(form_data.sections) :
            LET subsections == form_data.sections[s].subsections IN
            DistinctIds(subsections) =>
                \A level \in 1..NestLimit :
                    /\ Cardinality(UnitsAt(s, "subheading", level)) =
                         Cardinality({k \in Placed(subsections, level) :
                                            subsections[k].title # ""})
                    /\ Cardinality(UnitsAt(s, "subpara", level)) =
                         Cardinality({k \in Placed(subsections, level) :
                                            subsections[k].content # ""})
                    /\ level > 1 =>
                         \A k \in UnitsAt(s, "subheading", level) \cup UnitsAt(s, "subpara", level) :
                            \E p \in UnitsAt(s, "subheading", level - 1)
                                        \cup UnitsAt(s, "subpara", level - 1) :
                                doc[p].path = SubSeq(doc[k].path, 1, Len(doc[k].path) - 1)

====
